---- MODULE Spec2Model ----
(***************************************************************************)
(* Gantt timeline layout and project progress of the Calendario dashboard. *)
(*                                                                         *)
(* The model covers frontend/src/components/gantt/GanttChart.jsx (timeline *)
(* bounds, day grid, project progress and its colour tier) and             *)
(* GanttTaskBar.jsx (bar placement).  A JavaScript Date is modelled by its *)
(* getTime() value, counted in hours since 2026-01-01T00:00Z instead of    *)
(* milliseconds; every instant the code handles is a whole hour, so the    *)
(* scale changes no quotient.  Local-time construction and setDate() go    *)
(* through the browser's time zone, which is part of the state.            *)
(***************************************************************************)
EXTENDS Integers, Sequences, FiniteSets

VARIABLES
    tz,              \* the browser's time zone (a record of TimeZones)
    clock,           \* value of the last `new Date()` the code read, or Null
    projects,        \* prop `projects` of GanttChart
    tasksByProject,  \* prop `tasksByProject` of GanttChart
    rendered,        \* TRUE once GanttChart has rendered the props
    renders,         \* how many times the timeline memo has been computed
    view,            \* what the render pass computed
    progressArg,     \* argument handed to getProgressStyle on its own
    progressStyle,   \* its result
    storage,         \* localStorage item 'gantt_expanded_projects': NoItem or a text
    expandedProjects,  \* GanttChart: state `expandedProjects` while mounted
    mounts,          \* how many times GanttChart has been mounted
    apiEvents,       \* campaign calendar: the events /api/events answers with
    events,          \* App.jsx: state `events`
    selectedChannel, \* App.jsx / script.js: the channel filter
    displayedEvents, \* script.js: the events the calendar widget holds
    saturationDays,  \* App.jsx: memo `saturationDays`, as a set of <<day, count>>
    saturationAlertHidden,  \* script.js: #saturation-alert carries class hidden
    loading,         \* GanttPage: state `loading`
    error,           \* GanttPage: state `error`
    started,         \* GanttPage: how many loadData calls have started
    inflight,        \* GanttPage: the loadData calls awaiting their responses
    dataSerial,      \* GanttPage: the loadData call that set the current arrays
    memo,            \* ProjectBlock: per mounted block, the useMemo cell of `progress`
    isProjectModalOpen,  \* GanttPage: state of the project modal
    editingProject,      \* Null or <<project>>
    projectModalError,
    projectForm,         \* ProjectModal: state `form` as of the last open or submit
    projectSaving,
    projectWrite,    \* Null or <<[payload, request]>>: handleProjectSubmit awaiting its fetch
    projectReload,   \* the loadData call handleProjectSubmit awaits, or 0
    isTaskModalOpen,     \* GanttPage: state of the task modal
    editingTask,         \* Null, <<[project_id]>> for a new task, or <<task>>
    taskModalError,
    taskForm,            \* TaskModal: state `form` as of the last open or submit
    taskSaving,
    taskWrite,       \* Null or <<[payload, request]>>: handleTaskSubmit awaiting its fetch
    taskReload,      \* the loadData call handleTaskSubmit awaits, or 0
    toasts,          \* GanttPage: state `toasts`, a set of [id, message]
    toastSerial,     \* how many times showToast has been called
    submitCount,     \* how many times a modal has called onSubmit
    writeCount,      \* how many write requests have been sent
    lastSubmit,      \* Null or <<[kind, payload]>>: the latest onSubmit call
    lastResponse     \* "", "ok" or "failed": how the latest write request ended

layoutVars == <<tz, clock, projects, tasksByProject, rendered, renders, view,
                progressArg, progressStyle, storage, expandedProjects, mounts>>

calendarVars == <<apiEvents, events, selectedChannel, displayedEvents,
                  saturationDays, saturationAlertHidden>>

pageVars == <<loading, error, started, inflight, dataSerial, memo>>

formVars == <<isProjectModalOpen, editingProject, projectModalError, projectForm,
              projectSaving, projectWrite, projectReload,
              isTaskModalOpen, editingTask, taskModalError, taskForm, taskSaving,
              taskWrite, taskReload,
              toasts, toastSerial, submitCount, writeCount, lastSubmit, lastResponse>>

projectModalVars == <<isProjectModalOpen, editingProject, projectModalError, projectForm>>

taskModalVars == <<isTaskModalOpen, editingTask, taskModalError, taskForm>>

projectSaveVars == <<projectSaving, projectWrite, projectReload>>

taskSaveVars == <<taskSaving, taskWrite, taskReload>>

historyVars == <<submitCount, writeCount, lastSubmit, lastResponse>>

vars == <<layoutVars, calendarVars, pageVars, formVars>>

----------------------------------------------------------------------------
(* Bounds of the model *)

MaxItems == 2            \* projects plus tasks in one input of the layout
MaxProgressTasks == 6    \* tasks of the project whose progress is aggregated
MaxGradedTasks == 40     \* tasks of a project listed with its done tasks first
MaxProgress == 100       \* largest progress value handed to getProgressStyle
MaxStoredProgress == 103 \* largest number a task's stored progress holds
MaxCompareTasks == 2     \* tasks of each of two projects whose progress is compared
MaxRenders == 2          \* computations of the timeline memo over the same props
MaxEvents == 4           \* campaigns /api/events delivers
MaxLoads == 2            \* loadData calls of one page visit
MaxSubmits == 1          \* form submissions of one page visit
MaxPageTasks == 1        \* tasks of a project in a response to loadData
MaxMembers == 2          \* members of the JSON object found in localStorage
MaxToasts == 3           \* showToast calls while the toasts are followed on their own
MaxMounts == 2           \* mounts of the chart while its expanded state is followed

----------------------------------------------------------------------------
(* Calendar and time zone: what `new Date(...)`, getDate() and setDate()   *)
(* do.  Days are numbered from 2026-01-01 = day 0.                         *)

Null == <<>>
Date(t) == <<t>>
getTime(date) == date[1]

HoursPerDay == 24

DaysBeforeMonth == <<0, 31, 59, 90, 120, 151, 181, 212, 243, 273, 304, 334>>

DayNumber(month, day) == DaysBeforeMonth[month] + (day - 1)

\* A zone: its standard UTC offset in hours, and the days on which daylight
\* time starts and ends (at 02:00 local standard time / 02:00 local daylight
\* time).  dstStart = dstEnd means the zone keeps one offset all year.
TimeZones ==
    { [name |-> "UTC", base |-> 0, dstStart |-> 0, dstEnd |-> 0],
      [name |-> "America/New_York", base |-> -5,
       dstStart |-> DayNumber(3, 8), dstEnd |-> DayNumber(11, 1)] }

InDst(zone, t) ==
    /\ zone.dstStart # zone.dstEnd
    /\ t >= HoursPerDay * zone.dstStart + 2 - zone.base
    /\ t < HoursPerDay * zone.dstEnd + 2 - (zone.base + 1)

OffsetAt(zone, t) == zone.base + (IF InDst(zone, t) THEN 1 ELSE 0)

\* Local wall-clock reading of an instant, in hours since local 2026-01-01T00:00.
LocalHours(zone, t) == t + OffsetAt(zone, t)

LocalDay(zone, t) == LocalHours(zone, t) \div HoursPerDay

LocalHourOfDay(zone, t) == LocalHours(zone, t) % HoursPerDay

\* The instant whose local reading is `hour` o'clock on `day`: what the Date
\* constructor and setDate() resolve local fields to.
MakeLocal(zone, day, hour) ==
    LET std == HoursPerDay * day + hour - zone.base
    IN  IF InDst(zone, std - 1) THEN std - 1 ELSE std

MonthOfDay(day) ==
    CHOOSE m \in 1..12 :
        /\ DaysBeforeMonth[m] <= day
        /\ (m = 12 \/ day < DaysBeforeMonth[m + 1])

----------------------------------------------------------------------------
(* Values the API delivers in start_date / end_date: "" stands for a       *)
(* missing date (null or the empty string, both falsy), "invalid" for a    *)
(* string that is no date.                                                 *)

IsoDates == {"2026-03-08", "2026-03-09"}

DateValues == {"", "invalid"} \cup IsoDates

\* <<month, day>> of a well-formed "2026-MM-DD" string.
ParseIso(value) ==
    CASE value = "2026-01-30" -> <<1, 30>>
      [] value = "2026-02-01" -> <<2, 1>>
      [] value = "2026-02-03" -> <<2, 3>>
      [] value = "2026-02-05" -> <<2, 5>>
      [] value = "2026-02-10" -> <<2, 10>>
      [] value = "2026-02-12" -> <<2, 12>>
      [] value = "2026-03-08" -> <<3, 8>>
      [] value = "2026-03-09" -> <<3, 9>>
      [] value = "2026-03-10" -> <<3, 10>>

IsIso(value) ==
    value \in {"2026-01-30", "2026-02-01", "2026-02-03", "2026-02-05", "2026-02-10",
               "2026-02-12", "2026-03-08", "2026-03-09", "2026-03-10"}

----------------------------------------------------------------------------
(* GanttChart.jsx / GanttTaskBar.jsx: date helpers                         *)

DAY_WIDTH == 42

\* Faulty variant: a string that is no date is read as 2026-01-01 instead of
\* giving null.
toDateLenient(zone, value) ==
    IF value = "" THEN Null
    ELSE IF ~IsIso(value) THEN Date(MakeLocal(zone, 0, 0))
    ELSE Date(MakeLocal(zone, DayNumber(ParseIso(value)[1], ParseIso(value)[2]), 0))

\* toDate: a missing value and an unparseable one both give null; a date
\* string is read as local midnight (`${value}T00:00:00` has no zone suffix).
toDate(zone, value) ==
    IF value = "" THEN Null
    ELSE IF ~IsIso(value) THEN Null
    ELSE Date(MakeLocal(zone, DayNumber(ParseIso(value)[1], ParseIso(value)[2]), 0))

\* dayDiff: Math.floor of the elapsed time over the length of a 24 hour day.
dayDiff(start, end) == (getTime(end) - getTime(start)) \div HoursPerDay

\* Faulty variant: the days are added as elapsed time, 24 hours each, instead
\* of through setDate().
addDaysByElapsedTime(zone, date, count) ==
    Date(getTime(date) + count * HoursPerDay)

\* addDays: setDate(getDate() + count) moves the local calendar day and keeps
\* the local time of day.
addDays(zone, date, count) ==
    Date(MakeLocal(zone, LocalDay(zone, getTime(date)) + count,
                   LocalHourOfDay(zone, getTime(date))))

TasksOf(tbp, id) == IF id \in DOMAIN tbp THEN tbp[id] ELSE <<>>

\* The two dates of a project or task that parse (the `if (start) dates.push`).
ItemDates(zone, item) ==
    {d \in {toDate(zone, item.start_date), toDate(zone, item.end_date)} : d # Null}

\* Faulty variant: a task whose end precedes its start is left out of `dates`.
CollectDatesOfOrderedTasks(zone, projs, tbp) ==
    UNION { ItemDates(zone, projs[k])
            \cup UNION { ItemDates(zone, TasksOf(tbp, projs[k].id)[i]) :
                         i \in { j \in 1..Len(TasksOf(tbp, projs[k].id)) :
                                   LET task == TasksOf(tbp, projs[k].id)[j]
                                   IN  \/ toDate(zone, task.start_date) = Null
                                       \/ toDate(zone, task.end_date) = Null
                                       \/ getTime(toDate(zone, task.start_date))
                                              <= getTime(toDate(zone, task.end_date)) } } :
            k \in 1..Len(projs) }

\* The array `dates` of getTimelineBounds, as the set of its elements (the
\* code only takes its length, minimum and maximum).
CollectDates(zone, projs, tbp) ==
    UNION { ItemDates(zone, projs[k])
            \cup UNION { ItemDates(zone, TasksOf(tbp, projs[k].id)[i]) :
                         i \in 1..Len(TasksOf(tbp, projs[k].id)) } :
            k \in 1..Len(projs) }

MinTime(dates) == CHOOSE t \in {getTime(d) : d \in dates} :
                      \A d \in dates : t <= getTime(d)

MaxTime(dates) == CHOOSE t \in {getTime(d) : d \in dates} :
                      \A d \in dates : t >= getTime(d)

\* new Date(now.getFullYear(), now.getMonth(), 1)
FirstOfMonth(zone, now) ==
    Date(MakeLocal(zone, DaysBeforeMonth[MonthOfDay(LocalDay(zone, now))], 0))

\* Faulty variant: today is always part of the timeline.
getTimelineBoundsWithToday(zone, projs, tbp, now) ==
    LET dates == CollectDates(zone, projs, tbp) \cup {Date(now)}
    IN  [start |-> addDays(zone, Date(MinTime(dates)), -2),
         end |-> addDays(zone, Date(MaxTime(dates)), 2)]

getTimelineBounds(zone, projs, tbp, now) ==
    LET dates == CollectDates(zone, projs, tbp)
    IN  IF dates = {}
        THEN [start |-> FirstOfMonth(zone, now),
              end |-> addDays(zone, FirstOfMonth(zone, now), 30)]
        ELSE [start |-> addDays(zone, Date(MinTime(dates)), -2),
              end |-> addDays(zone, Date(MaxTime(dates)), 2)]

\* Faulty variant: the arguments of dayDiff are swapped.
TimelineDaysSwapped(bounds) == dayDiff(bounds.end, bounds.start) + 1

\* Faulty variant: the end day itself is not counted.
TimelineDaysExclusive(bounds) == dayDiff(bounds.start, bounds.end)

\* days = dayDiff(bounds.start, bounds.end) + 1
TimelineDays(bounds) == dayDiff(bounds.start, bounds.end) + 1

\* Faulty variant: the header leaves out the first day of the range and runs
\* one day past its end.
TimelineHeaderShifted(zone, projs, tbp, now) ==
    LET bounds == getTimelineBounds(zone, projs, tbp, now)
        days == TimelineDays(bounds)
    IN  [bounds |-> bounds,
         timelineStart |-> bounds.start,
         timelineDays |-> days,
         headerDates |-> [index \in 1..days |-> addDays(zone, bounds.start, index)],
         timelineWidth |-> days * DAY_WIDTH]

\* The useMemo of GanttChart.
Timeline(zone, projs, tbp, now) ==
    LET bounds == getTimelineBounds(zone, projs, tbp, now)
        days == TimelineDays(bounds)
    IN  [bounds |-> bounds,
         timelineStart |-> bounds.start,
         timelineDays |-> days,
         headerDates |-> [index \in 1..days |-> addDays(zone, bounds.start, index - 1)],
         timelineWidth |-> days * DAY_WIDTH]

Max(a, b) == IF a >= b THEN a ELSE b

Min(a, b) == IF a <= b THEN a ELSE b

\* A value of task.progress as the JSON payload delivers it, by kind:
\*   "number"     the number num
\*   "numeral"    a string that spells the number num ("-3", "57")
\*   "text"       a string that spells no number ("abc")
\*   "empty"      the empty string
\*   "null"       null
\*   "undefined"  the field is missing
\*   "boolean"    false (num = 0) or true (num = 1)
NumberValue(n) == [kind |-> "number", num |-> n]

NaN == <<>>

\* Number(value): <<n>> for the number n, NaN when the value converts to none.
\* null, "" and false convert to 0, true converts to 1.
Number(value) ==
    CASE value.kind = "number" -> <<value.num>>
      [] value.kind = "numeral" -> <<value.num>>
      [] value.kind = "text" -> NaN
      [] value.kind = "empty" -> <<0>>
      [] value.kind = "null" -> <<0>>
      [] value.kind = "undefined" -> NaN
      [] value.kind = "boolean" -> <<value.num>>

\* Faulty variant: only the upper end is clamped.
clampProgressUpperOnly(value) ==
    LET numeric == Number(value)
    IN  IF numeric = NaN THEN 0
        ELSE Min(100, numeric[1])

clampProgress(value) ==
    LET numeric == Number(value)
    IN  IF numeric = NaN THEN 0
        ELSE Max(0, Min(100, numeric[1]))

\* GanttTaskBar: Null when nothing is rendered, else the bar's left and width
\* in pixels and the percentage written inside it.

\* Faulty variant: the test `endDate < startDate` is missing.
GanttTaskBarUnordered(zone, task, timelineStart) ==
    LET startDate == toDate(zone, task.start_date)
        endDate == toDate(zone, task.end_date)
    IN  IF startDate = Null \/ endDate = Null THEN Null
        ELSE <<[left |-> dayDiff(timelineStart, startDate) * DAY_WIDTH,
                width |-> Max(DAY_WIDTH, (dayDiff(startDate, endDate) + 1) * DAY_WIDTH),
                progress |-> clampProgress(task.progress)]>>

GanttTaskBar(zone, task, timelineStart) ==
    LET startDate == toDate(zone, task.start_date)
        endDate == toDate(zone, task.end_date)
    IN  IF startDate = Null \/ endDate = Null THEN Null
        ELSE IF getTime(endDate) < getTime(startDate) THEN Null
        ELSE <<[left |-> dayDiff(timelineStart, startDate) * DAY_WIDTH,
                width |-> Max(DAY_WIDTH, (dayDiff(startDate, endDate) + 1) * DAY_WIDTH),
                progress |-> clampProgress(task.progress)]>>

----------------------------------------------------------------------------
(* GanttChart.jsx: project progress                                        *)

\* Math.round((num / den) * 100) for two counts, den <= 101.  The exact value
\* 100 * num / den is rounded to the nearest integer, a tie going up; the
\* code rounds the double-precision product instead, which differs from the
\* exact value by less than any distance to a .5 except on a tie, where it
\* is either exact (the tie goes up) or one unit in the last place below it
\* (Math.round then goes down).  ProductBelowTie lists the ties of the second
\* kind: fl(fl(23/40) * 100) = fl(fl(46/80) * 100) = 57.49999999999999.
ProductBelowTie == {<<23, 40>>, <<46, 80>>}

MathRoundPercent(num, den) ==
    LET exact == (200 * num + den) \div (2 * den)
    IN  IF <<num, den>> \in ProductBelowTie THEN exact - 1 ELSE exact

IsDone(task) == task.status = "done"

\* Faulty variant: a task counts as done when its own progress is 100.
getProjectProgressByTaskProgress(tasks) ==
    LET Complete(task) == clampProgress(task.progress) = 100
    IN  IF Len(tasks) = 0 THEN 0
        ELSE MathRoundPercent(Len(SelectSeq(tasks, Complete)), Len(tasks))

\* Faulty variant: a project without tasks counts as complete.
getProjectProgressEmptyComplete(tasks) ==
    IF Len(tasks) = 0 THEN 100
    ELSE MathRoundPercent(Len(SelectSeq(tasks, IsDone)), Len(tasks))

getProjectProgress(tasks) ==
    IF Len(tasks) = 0 THEN 0
    ELSE MathRoundPercent(Len(SelectSeq(tasks, IsDone)), Len(tasks))

\* Faulty variant: the thresholds are compared with <= instead of <.
getProgressStyleInclusive(progress) ==
    IF progress <= 40 THEN [fill |-> "bg-rose-400", track |-> "bg-rose-100"]
    ELSE IF progress <= 80 THEN [fill |-> "bg-amber-400", track |-> "bg-amber-100"]
    ELSE [fill |-> "bg-emerald-500", track |-> "bg-emerald-100"]

getProgressStyle(progress) ==
    IF progress < 40 THEN [fill |-> "bg-rose-400", track |-> "bg-rose-100"]
    ELSE IF progress < 80 THEN [fill |-> "bg-amber-400", track |-> "bg-amber-100"]
    ELSE [fill |-> "bg-emerald-500", track |-> "bg-emerald-100"]

\* ProjectBlock of one project: its progress, the style of the progress bar,
\* and one GanttTaskBar per task row.
ProjectBlock(zone, tasks, timelineStart) ==
    [progress |-> getProjectProgress(tasks),
     progressStyle |-> getProgressStyle(getProjectProgress(tasks)),
     bars |-> [i \in 1..Len(tasks) |-> GanttTaskBar(zone, tasks[i], timelineStart)]]

\* One render pass of GanttChart over its props.
GanttChart(zone, projs, tbp, now) ==
    LET timeline == Timeline(zone, projs, tbp, now)
    IN  [timeline |-> timeline,
         blocks |-> [k \in 1..Len(projs) |->
                        ProjectBlock(zone, TasksOf(tbp, projs[k].id), timeline.timelineStart)]]

\* The array `tasks` a ProjectBlock receives, by identity: the array the
\* loadData call `serial` stored for the project, or a fresh `[]` (written
\* <<>>, equal to no earlier array) when tasksByProject has no entry.
TasksIdentity(tbp, serial, id) ==
    IF id \in DOMAIN tbp THEN <<serial, id>> ELSE <<>>

\* Faulty variant: the memo is never computed again while the block stays
\* mounted (an empty dependency list).
useMemoProgressOnce(cells, id, identity, tasks) ==
    IF id \in DOMAIN cells THEN cells[id].value
    ELSE getProjectProgress(tasks)

\* useMemo(() => getProjectProgress(tasks), [tasks]) of the block keyed `id`:
\* the cached value when the block was mounted before with the same array.
useMemoProgress(cells, id, identity, tasks) ==
    IF id \in DOMAIN cells /\ identity # <<>> /\ cells[id].deps = identity
    THEN cells[id].value
    ELSE getProjectProgress(tasks)

\* The useMemo cells after a render of the chart over the page's state.
ChartMemo(cells, projs, tbp, serial) ==
    [id \in {projs[k].id : k \in 1..Len(projs)} |->
        [deps |-> TasksIdentity(tbp, serial, id),
         value |-> useMemoProgress(cells, id, TasksIdentity(tbp, serial, id),
                                   TasksOf(tbp, id))]]

\* GanttChart as the page shows it: the blocks take their progress from
\* their useMemo cells.
MountedChart(zone, cells, projs, tbp, serial, now) ==
    LET chart == GanttChart(zone, projs, tbp, now)
        after == ChartMemo(cells, projs, tbp, serial)
    IN  [timeline |-> chart.timeline,
         blocks |-> [k \in 1..Len(projs) |->
                        [progress |-> after[projs[k].id].value,
                         progressStyle |-> getProgressStyle(after[projs[k].id].value),
                         bars |-> chart.blocks[k].bars]]]

----------------------------------------------------------------------------
(* GanttChart: which projects are expanded, kept in localStorage as JSON.  *)
(* A JavaScript value is a record [kind, num] (see Number above); an       *)
(* object is a function from its keys to values.  A JSON text is what the  *)
(* parser sees in it: the members of an object with the literal written    *)
(* for each, a lone literal (one member without a key), or text that is no *)
(* JSON.                                                                   *)

BooleanValue(b) == [kind |-> "boolean", num |-> IF b THEN 1 ELSE 0]

NullValue == [kind |-> "null", num |-> 0]

\* `!value` is false for these.
Truthy(value) ==
    CASE value.kind = "boolean" -> value.num = 1
      [] value.kind = "number" -> value.num # 0
      [] value.kind = "null" -> FALSE
      [] OTHER -> TRUE

EmptyObject == [key \in {} |-> NullValue]

\* localStorage.getItem of a key that was never set.
NoItem == [kind |-> "none", members |-> <<>>]

\* The keys an object lists, in the order JSON.stringify walks them.
StorageKeys == <<"1", "2">>

\* String(projectId)
String(id) == IF id \in 1..Len(StorageKeys) THEN StorageKeys[id] ELSE "other"

\* The literal JSON.stringify writes for a value.
JsonLiteral(value) ==
    CASE value.kind = "boolean" -> IF value.num = 1 THEN "true" ELSE "false"
      [] value.kind = "null" -> "null"
      [] value.kind = "number" -> IF value.num = 0 THEN "0" ELSE "1"

\* The value JSON.parse reads from a literal.
JsonValue(literal) ==
    CASE literal = "true" -> BooleanValue(TRUE)
      [] literal = "false" -> BooleanValue(FALSE)
      [] literal = "null" -> NullValue
      [] literal = "0" -> NumberValue(0)
      [] literal = "1" -> NumberValue(1)

\* Faulty variant: members whose value is false are left out.
JSONstringifyTruthyOnly(object) ==
    [kind |-> "object",
     members |-> LET present == SelectSeq(StorageKeys,
                                    LAMBDA key : /\ key \in DOMAIN object
                                                 /\ Truthy(object[key]))
                 IN  [i \in 1..Len(present) |->
                         <<present[i], JsonLiteral(object[present[i]])>>]]

\* JSON.stringify(expandedProjects): one member per key.
JSONstringify(object) ==
    [kind |-> "object",
     members |-> LET present == SelectSeq(StorageKeys, LAMBDA key : key \in DOMAIN object)
                 IN  [i \in 1..Len(present) |->
                         <<present[i], JsonLiteral(object[present[i]])>>]]

\* JSON.parse: an object (of a repeated key the last member counts), a lone
\* value, or a SyntaxError.
JSONparse(text) ==
    CASE text.kind = "object" ->
           [type |-> "object",
            object |-> [key \in {text.members[i][1] : i \in 1..Len(text.members)} |->
                          LET last == CHOOSE i \in 1..Len(text.members) :
                                          /\ text.members[i][1] = key
                                          /\ \A j \in (i + 1)..Len(text.members) :
                                                 text.members[j][1] # key
                          IN  JsonValue(text.members[last][2])]]
      [] text.kind = "literal" ->
           [type |-> "value", value |-> JsonValue(text.members[1][2])]
      [] OTHER -> [type |-> "SyntaxError"]

readExpandedFromStorage(raw) ==
    IF raw = NoItem \/ raw.kind = "empty" THEN EmptyObject
    ELSE IF JSONparse(raw).type = "object" THEN JSONparse(raw).object
    ELSE EmptyObject

\* GanttChart: `expandedProjects[String(project.id)] !== false`
Expanded(object, id) ==
    ~(String(id) \in DOMAIN object /\ object[String(id)] = BooleanValue(FALSE))

\* The updater of toggleProject: `{...prev, [String(projectId)]: !current}`;
\* `!undefined` is true.
ToggledProjects(prev, id) ==
    [key \in DOMAIN prev \cup {String(id)} |->
        IF key = String(id)
        THEN BooleanValue(~(key \in DOMAIN prev /\ Truthy(prev[key])))
        ELSE prev[key]]

----------------------------------------------------------------------------
(* GanttPage with its modals: ProjectModal, TaskModal and the submit       *)
(* handlers.  JSON null is written JsonNull where the field is otherwise a *)
(* string, and Null where it is otherwise a number.                        *)

JsonNull == "<null>"

\* Faulty variant: blanks are kept.
TrimNothing(text) == text

\* String.prototype.trim on the texts the forms hold.
Trim(text) ==
    CASE text = "  " -> ""
      [] text = " Site " -> "Site"
      [] text = " Plan " -> "Plan"
      [] OTHER -> text

\* `text || null`
OrNull(text) == IF text = "" THEN JsonNull ELSE text

\* The value of an <input> or <select>: "" or a string of digits.
EmptyValue == [kind |-> "empty", num |-> 0]

NumeralValue(n) == [kind |-> "numeral", num |-> n]

\* `!numeric` for the result of Number(): NaN and 0 are falsy.
Falsy(numeric) == numeric = NaN \/ numeric[1] = 0

\* `Number(value) || 0`
NumberOrZero(value) == IF Falsy(Number(value)) THEN 0 ELSE Number(value)[1]

\* ProjectModal.handleSubmit: the payload handed to onSubmit.
ProjectModalSubmit(form) ==
    [name |-> Trim(form.name),
     owner |-> OrNull(Trim(form.owner)),
     description |-> OrNull(Trim(form.description)),
     start_date |-> OrNull(form.start_date),
     end_date |-> OrNull(form.end_date),
     status |-> form.status]

\* TaskModal.handleSubmit: the payload handed to onSubmit.
TaskModalSubmit(form) ==
    [project_id |-> Number(form.project_id),
     title |-> Trim(form.title),
     description |-> OrNull(Trim(form.description)),
     start_date |-> OrNull(form.start_date),
     end_date |-> OrNull(form.end_date),
     status |-> form.status,
     priority |-> form.priority,
     progress |-> NumberOrZero(form.progress),
     depends_on_task_id |-> IF form.depends_on_task_id.kind = "empty" THEN Null
                            ELSE Number(form.depends_on_task_id)]

\* TaskModal: selectableDependencies, the ids offered by the dependency
\* select next to "Nenhuma".  tbpProp is the prop tasksByProject (Null when
\* the page passes none), currentTaskId the prop of that name (0 when the
\* page passes none).
SelectableDependencies(tbpProp, projectId, currentTaskId) ==
    IF tbpProp = Null \/ Falsy(Number(projectId)) THEN {}
    ELSE IF Number(projectId)[1] \notin DOMAIN tbpProp THEN {}
    ELSE LET tasks == tbpProp[Number(projectId)[1]]
         IN  {tasks[i].id : i \in 1..Len(tasks)} \ {currentTaskId}

\* The forms the user can submit from the task modal.  The project select
\* starts at initialValues.project_id (the first project when that is
\* missing) and offers the listed projects unless it is locked.
TaskForms(initialProjectId, lockProject, projs, tbpProp, currentTaskId) ==
    LET firstProjectId == IF Len(projs) > 0 THEN NumeralValue(projs[1].id)
                          ELSE EmptyValue
        initial == IF initialProjectId # 0 THEN NumeralValue(initialProjectId)
                   ELSE firstProjectId
        offered == IF lockProject THEN {initial}
                   ELSE {initial} \cup {NumeralValue(projs[k].id) : k \in 1..Len(projs)}
    IN  UNION { [project_id : {projectId},
                 title : {"  ", "Plan"},
                 description : {""},
                 start_date : {"2026-03-08"},
                 end_date : {""},
                 status : {"planned"},
                 priority : {"medium"},
                 progress : {EmptyValue, NumeralValue(50)},
                 depends_on_task_id :
                     {EmptyValue} \cup
                     {NumeralValue(id) :
                        id \in SelectableDependencies(tbpProp, projectId, currentTaskId)}] :
               projectId \in offered }

\* ProjectModal: the form its effect sets when the modal opens, from
\* initialValues (the project under edit, or null).
ProjectFormOf(editing) ==
    [name |-> "", owner |-> "", description |-> "",
     start_date |-> IF editing = Null THEN "" ELSE editing[1].start_date,
     end_date |-> IF editing = Null THEN "" ELSE editing[1].end_date,
     status |-> "planned"]

\* TaskModal: EMPTY_FORM, the form before the modal was ever open.
EMPTY_FORM ==
    [project_id |-> EmptyValue, title |-> "", description |-> "", start_date |-> "",
     end_date |-> "", status |-> "planned", priority |-> "medium",
     progress |-> NumberValue(0)]

\* TaskModal: the form its effect sets when the modal opens or `projects`
\* changes, from editingTaskInitialValues of the task under edit.
TaskFormOf(editing, projs) ==
    LET firstProjectId == IF Len(projs) > 0 THEN NumeralValue(projs[1].id)
                          ELSE EmptyValue
        existing == editing # Null /\ "id" \in DOMAIN editing[1]
    IN  [project_id |-> IF editing # Null /\ editing[1].project_id # 0
                        THEN NumeralValue(editing[1].project_id) ELSE firstProjectId,
         title |-> "", description |-> "",
         start_date |-> IF existing THEN editing[1].start_date ELSE "",
         end_date |-> IF existing THEN editing[1].end_date ELSE "",
         status |-> IF existing THEN editing[1].status ELSE "planned",
         priority |-> "medium",
         progress |-> IF existing /\ ~Falsy(Number(editing[1].progress))
                      THEN NumberValue(Number(editing[1].progress)[1])
                      ELSE NumberValue(0),
         depends_on_task_id |-> EmptyValue]

\* `editing?.id`: the record under edit has a truthy id.
HasId(editing) ==
    /\ editing # Null
    /\ "id" \in DOMAIN editing[1]
    /\ editing[1].id # 0

\* Faulty variant: a project under edit is saved with POST, as a new one.
ProjectRequestAlwaysPost(editing, payload) ==
    [method |-> "POST", resource |-> "/api/projects", id |-> 0, body |-> payload]

\* handleProjectSubmit: the fetch it makes.
ProjectRequest(editing, payload) ==
    IF HasId(editing)
    THEN [method |-> "PUT", resource |-> "/api/projects/{id}", id |-> editing[1].id,
          body |-> payload]
    ELSE [method |-> "POST", resource |-> "/api/projects", id |-> 0, body |-> payload]

\* The body handleTaskSubmit builds, for PUT and POST alike.
TaskBody(payload) ==
    [title |-> payload.title,
     description |-> payload.description,
     start_date |-> payload.start_date,
     end_date |-> payload.end_date,
     status |-> payload.status,
     priority |-> payload.priority,
     progress |-> payload.progress]

\* handleTaskSubmit: the fetch it makes once the title is there (and, for a
\* new task, a project).
TaskRequest(editing, payload) ==
    IF HasId(editing)
    THEN [method |-> "PUT", resource |-> "/api/tasks/{id}", id |-> editing[1].id,
          body |-> TaskBody(payload)]
    ELSE [method |-> "POST", resource |-> "/api/projects/{id}/tasks",
          id |-> payload.project_id[1], body |-> TaskBody(payload)]

----------------------------------------------------------------------------
(* Campaign calendar: App.jsx and script.js                                *)

\* normalizeChannel of App.jsx on the channel names the sheet uses.
normalizeChannel(channel) ==
    CASE channel = "Email" -> "email"
      [] channel = "WhatsApp" -> "whatsapp"
      [] channel = "SMS" -> "sms"
      [] OTHER -> "other"

\* loadEvents: every event gets its channelKey.
Normalized(apiEvts) ==
    [i \in 1..Len(apiEvts) |->
        [start |-> apiEvts[i].start, canal |-> apiEvts[i].canal,
         channelKey |-> normalizeChannel(apiEvts[i].canal)]]

\* The memo filteredEvents of App.jsx.
filteredEvents(evts, channel) ==
    IF channel = "all" THEN evts
    ELSE LET Selected(event) == event.channelKey = channel
         IN  SelectSeq(evts, Selected)

\* applySelectedChannel of script.js: the lower-cased channel name contains
\* the selected key.
applySelectedChannel(apiEvts, channel) ==
    IF channel = "all" THEN apiEvts
    ELSE LET Selected(event) == normalizeChannel(event.canal) = channel
         IN  SelectSeq(apiEvts, Selected)

\* countByDate / map: how many of the events start on `date`; an event
\* without a start is skipped.
CountByDate(evts, date) ==
    Cardinality({i \in 1..Len(evts) : evts[i].start # "" /\ evts[i].start = date})

EventDates(evts) == {evts[i].start : i \in 1..Len(evts)} \ {""}

\* The memo saturationDays of App.jsx: the entries whose count is >= 3.  The
\* alert is rendered when there is at least one.
saturationDaysOf(evts) ==
    {<<date, CountByDate(evts, date)>> :
        date \in {d \in EventDates(evts) : CountByDate(evts, d) >= 3}}

\* checkSaturation of script.js: `saturated`.
checkSaturation(evts) ==
    \E date \in EventDates(evts) : CountByDate(evts, date) >= 3

----------------------------------------------------------------------------
(* Inputs.  A layout input is written as a sequence of items, a project    *)
(* followed by its tasks, the way /api/projects and /api/projects/{id}/tasks *)
(* deliver them; project ids are given in order.                           *)

TaskStatuses == {"planned", "doing", "blocked", "done"}

ProjectItems ==
    [kind : {"project"}, start_date : DateValues, end_date : DateValues,
     status : {"planned"}]

TaskItems ==
    [kind : {"task"}, start_date : DateValues, end_date : DateValues,
     status : {"planned", "done"}]

ItemSeqs ==
    { items \in UNION { [1..n -> ProjectItems \cup TaskItems] : n \in 0..MaxItems } :
        Len(items) > 0 => items[1].kind = "project" }

ProjectPositions(items) == {j \in 1..Len(items) : items[j].kind = "project"}

NthProjectPosition(items, k) ==
    CHOOSE j \in ProjectPositions(items) :
        Cardinality({i \in ProjectPositions(items) : i <= j}) = k

\* The tasks listed right after the project at position j.
TasksAfter(items, j) ==
    LET last == CHOOSE n \in j..Len(items) :
                    /\ \A i \in (j + 1)..n : items[i].kind = "task"
                    /\ (n = Len(items) \/ items[n + 1].kind = "project")
    IN  [i \in 1..(last - j) |->
            [start_date |-> items[j + i].start_date,
             end_date |-> items[j + i].end_date,
             status |-> items[j + i].status,
             progress |-> NumberValue(0)]]

ProjectsOf(items) ==
    [k \in 1..Cardinality(ProjectPositions(items)) |->
        [id |-> k,
         start_date |-> items[NthProjectPosition(items, k)].start_date,
         end_date |-> items[NthProjectPosition(items, k)].end_date]]

TasksByProjectOf(items) ==
    [k \in 1..Cardinality(ProjectPositions(items)) |->
        TasksAfter(items, NthProjectPosition(items, k))]

\* Inputs of the progress aggregation: one dated project with every list of
\* at most MaxProgressTasks tasks over the four task statuses, or with a
\* longer list of up to MaxGradedTasks tasks, the done ones first.
ProgressTaskLists ==
    UNION { [1..n -> [start_date : {"2026-03-08"}, end_date : {"2026-03-09"},
                      status : TaskStatuses, progress : {NumberValue(0)}]] :
            n \in 0..MaxProgressTasks }

GradedTaskLists ==
    UNION { { [i \in 1..n |->
                 [start_date |-> "2026-03-08", end_date |-> "2026-03-09",
                  status |-> IF i <= done THEN "done" ELSE "doing",
                  progress |-> NumberValue(0)]] :
              done \in 0..n } : n \in 0..MaxGradedTasks }

\* The worked example: one project with a done and a planned task.
ExampleProjects ==
    <<[id |-> 1, start_date |-> "2026-02-01", end_date |-> "2026-02-10"]>>

ExampleTasksByProject ==
    [k \in {1} |->
        <<[start_date |-> "2026-02-03", end_date |-> "2026-02-05",
           status |-> "done", progress |-> NumberValue(100)],
          [start_date |-> "2026-02-05", end_date |-> "2026-02-05",
           status |-> "planned", progress |-> NumberValue(0)]>>]

\* Values of a task's stored progress: numbers and numerals from a little
\* below 0 to MaxStoredProgress, and one value of every other kind.
StoredNumbers == (100 - MaxStoredProgress)..MaxStoredProgress

StoredProgressValues ==
    [kind : {"number", "numeral"}, num : StoredNumbers]
    \cup [kind : {"text", "empty", "null", "undefined"}, num : {0}]
    \cup [kind : {"boolean"}, num : {0, 1}]

\* Inputs of the comparison of two projects: the first project lists its
\* done tasks first, all alike; the second lists any tasks, in any order.
TaskPriorities == {"low", "high"}

PlainTaskLists ==
    UNION { { [i \in 1..n |->
                 [start_date |-> "2026-03-08", end_date |-> "2026-03-09",
                  status |-> IF i <= done THEN "done" ELSE "doing",
                  progress |-> NumberValue(0), priority |-> "low"]] :
              done \in 0..n } : n \in 0..MaxCompareTasks }

\* A task of the second project: any status; dated at progress 0 or 100 with
\* low priority, or undated at progress 100 with high priority.
VariedTasks ==
    { task \in [start_date : {"2026-03-08", ""}, end_date : {"2026-03-09"},
                status : {"planned", "doing", "done"},
                progress : {NumberValue(0), NumberValue(100)},
                priority : TaskPriorities] :
        /\ (task.priority = "high") <=> (task.start_date = "")
        /\ (task.start_date = "") => (task.progress = NumberValue(100)) }

VariedTaskLists == UNION { [1..n -> VariedTasks] : n \in 0..MaxCompareTasks }

\* Responses to loadData: the projects listed, and for each its tasks, the
\* done ones first.
PageProjectOrders == {<<>>, <<1>>, <<2>>, <<1, 2>>}

PageTaskLists ==
    UNION { { [i \in 1..n |->
                 [start_date |-> "2026-03-08", end_date |-> "2026-03-09",
                  status |-> IF i <= done THEN "done" ELSE "doing",
                  progress |-> NumberValue(0)]] :
              done \in 0..n } : n \in 0..MaxPageTasks }

\* The tasks of project `pid` as the API lists them, each with its id.
WithTaskIds(pid, tasks) ==
    [i \in 1..Len(tasks) |->
        [id |-> 10 * pid + i, project_id |-> pid,
         start_date |-> tasks[i].start_date, end_date |-> tasks[i].end_date,
         status |-> tasks[i].status, progress |-> tasks[i].progress]]

PagePayloads ==
    UNION { { [projects |-> [k \in 1..Len(order) |->
                               [id |-> order[k], start_date |-> "2026-03-08",
                                end_date |-> "2026-03-09"]],
               tasks |-> [pid \in DOMAIN tasks |-> WithTaskIds(pid, tasks[pid])]] :
              tasks \in [{order[k] : k \in 1..Len(order)} -> PageTaskLists] } :
            order \in PageProjectOrders }

\* The response the page of the form scenarios starts from: two projects
\* with one task each.
LoadedPayload ==
    CHOOSE payload \in PagePayloads :
        /\ Len(payload.projects) = 2
        /\ \A pid \in DOMAIN payload.tasks :
               /\ Len(payload.tasks[pid]) = 1
               /\ payload.tasks[pid][1].status = "doing"

\* What the user leaves in the project form when submitting: a name of
\* blanks only, or a name with blanks around it.
ProjectForms ==
    [name : {"  ", " Site "}, owner : {""}, description : {""},
     start_date : {"2026-03-08"}, end_date : {""}, status : {"planned"}]

\* Campaigns: a start day (or none) and the channel column of the sheet.
ApiEvents == [start : {"", "2026-03-08", "2026-03-09"}, canal : {"Email", "SMS"}]

ApiEventLists == UNION { [1..n -> ApiEvents] : n \in 0..MaxEvents }

ChannelKeys == {"all", "email", "whatsapp", "sms"}

\* What localStorage may hold under 'gantt_expanded_projects' when the page
\* opens: nothing, the empty string, text that is no JSON, a lone literal,
\* or an object whose members (keys may repeat) are booleans, null or 0.
StoredLiterals == {"true", "false", "null", "0"}

StoredTexts ==
    {NoItem, [kind |-> "empty", members |-> <<>>], [kind |-> "garbage", members |-> <<>>]}
    \cup { [kind |-> "literal", members |-> <<<<"", literal>>>>] : literal \in StoredLiterals }
    \cup UNION { { [kind |-> "object", members |-> members] :
                    members \in [1..n -> {"1", "2"} \X StoredLiterals] } :
                 n \in 0..MaxMembers }

\* Readings of the wall clock: mid February, mid March, and the hour that is
\* already March in UTC and still February in New York.
NowInstants ==
    { HoursPerDay * DayNumber(2, 15) + 12,
      HoursPerDay * DayNumber(3, 1) + 2,
      HoursPerDay * DayNumber(3, 20) + 12 }

NoStyle == [fill |-> "", track |-> ""]

NoView ==
    [timeline |-> [bounds |-> [start |-> Null, end |-> Null],
                   timelineStart |-> Null,
                   timelineDays |-> 0,
                   headerDates |-> <<>>,
                   timelineWidth |-> 0],
     blocks |-> <<>>]

----------------------------------------------------------------------------
(* Specifications *)

\* The campaign calendar before its first fetch.
InitCalendarIdle ==
    /\ events = <<>>
    /\ selectedChannel = "all"
    /\ displayedEvents = <<>>
    /\ saturationDays = {}
    /\ saturationAlertHidden = TRUE

\* The chart is not mounted and nothing was stored yet.
InitStorageIdle ==
    /\ storage = NoItem
    /\ expandedProjects = EmptyObject
    /\ mounts = 0

\* GanttPage as constructed: the useState initial values, no loadData yet.
InitPageIdle ==
    /\ loading = TRUE
    /\ error = ""
    /\ started = 0
    /\ inflight = {}
    /\ dataSerial = 0
    /\ memo = <<>>

\* The modals of GanttPage as constructed: closed, nothing being saved.
InitFormsIdle ==
    /\ isProjectModalOpen = FALSE
    /\ editingProject = Null
    /\ projectModalError = ""
    /\ projectForm = ProjectFormOf(Null)
    /\ projectSaving = FALSE
    /\ projectWrite = Null
    /\ projectReload = 0
    /\ isTaskModalOpen = FALSE
    /\ editingTask = Null
    /\ taskModalError = ""
    /\ taskForm = EMPTY_FORM
    /\ taskSaving = FALSE
    /\ taskWrite = Null
    /\ taskReload = 0
    /\ toasts = {}
    /\ toastSerial = 0
    /\ submitCount = 0
    /\ writeCount = 0
    /\ lastSubmit = Null
    /\ lastResponse = ""

InitShared ==
    /\ apiEvents = <<>>
    /\ InitCalendarIdle
    /\ InitPageIdle
    /\ InitFormsIdle
    /\ tz \in TimeZones
    /\ clock = Null
    /\ rendered = FALSE
    /\ renders = 0
    /\ view = NoView
    /\ progressStyle = NoStyle

\* What every scenario but that of the expanded projects starts from.
InitCommon ==
    /\ InitShared
    /\ InitStorageIdle

\* Layout: GanttChart is handed any small set of projects and tasks.
Init ==
    /\ InitCommon
    /\ \/ \E items \in ItemSeqs :
            /\ projects = ProjectsOf(items)
            /\ tasksByProject = TasksByProjectOf(items)
       \/ /\ projects = ExampleProjects
          /\ tasksByProject = ExampleTasksByProject
    /\ progressArg = 0

\* GanttChart's state and its effect: on the first render after mounting,
\* expandedProjects is read from the stored item and written back; later
\* renders keep it.
MountExpanded ==
    IF rendered THEN UNCHANGED <<storage, expandedProjects, mounts>>
    ELSE /\ expandedProjects' = readExpandedFromStorage(storage)
         /\ storage' = JSONstringify(readExpandedFromStorage(storage))
         /\ mounts' = mounts + 1

\* GanttChart renders its props: the timeline memo, then one ProjectBlock per
\* project.  `new Date()` is read only on the path without any date.  The
\* memo is computed again whenever the page hands over new arrays, also when
\* they hold what the previous ones held.
Render ==
    /\ renders < MaxRenders
    /\ renders' = renders + 1
    /\ \E now \in NowInstants :
        /\ view' = GanttChart(tz, projects, tasksByProject, now)
        /\ clock' = IF CollectDates(tz, projects, tasksByProject) = {}
                    THEN Date(now) ELSE clock
    /\ MountExpanded
    /\ rendered' = TRUE
    /\ UNCHANGED <<tz, projects, tasksByProject, progressArg, progressStyle>>
    /\ UNCHANGED <<calendarVars, pageVars, formVars>>

Next == Render

Spec == Init /\ [][Next]_vars

\* Expanded projects: two projects are listed, anything is in localStorage.
InitExpand ==
    /\ InitShared
    /\ storage \in StoredTexts
    /\ expandedProjects = EmptyObject
    /\ mounts = 0
    /\ projects = <<[id |-> 1, start_date |-> "2026-03-08", end_date |-> "2026-03-09"],
                    [id |-> 2, start_date |-> "2026-03-08", end_date |-> "2026-03-09"]>>
    /\ tasksByProject = [id \in {1, 2} |-> <<>>]
    /\ progressArg = 0

\* The chevron button of a project block: toggleProject, then the effect
\* that stores the new state.
toggleProject ==
    /\ rendered
    /\ \E k \in 1..Len(projects) :
        /\ expandedProjects' = ToggledProjects(expandedProjects, projects[k].id)
        /\ storage' = JSONstringify(ToggledProjects(expandedProjects, projects[k].id))
    /\ UNCHANGED <<tz, clock, projects, tasksByProject, rendered, renders, view,
                   progressArg, progressStyle, mounts>>
    /\ UNCHANGED <<calendarVars, pageVars, formVars>>

\* The page is reloaded (or shows its loading notice): the chart unmounts
\* and its state is gone; the stored item stays.
Unmount ==
    /\ rendered
    /\ mounts < MaxMounts
    /\ rendered' = FALSE
    /\ view' = NoView
    /\ expandedProjects' = EmptyObject
    /\ UNCHANGED <<tz, clock, projects, tasksByProject, renders, progressArg,
                   progressStyle, storage, mounts>>
    /\ UNCHANGED <<calendarVars, pageVars, formVars>>

NextExpand == Render \/ toggleProject \/ Unmount

SpecExpand == InitExpand /\ [][NextExpand]_vars

\* Progress: one project with a list of tasks.
InitProgress ==
    /\ InitCommon
    /\ projects = <<[id |-> 1, start_date |-> "2026-03-08", end_date |-> "2026-03-09"]>>
    /\ \E tasks \in ProgressTaskLists \cup GradedTaskLists :
        tasksByProject = [k \in {1} |-> tasks]
    /\ progressArg = 0

SpecProgress == InitProgress /\ [][Next]_vars

\* Bar label: one task with a bar, its stored progress being any value.
InitBar ==
    /\ InitCommon
    /\ projects = <<[id |-> 1, start_date |-> "2026-03-08", end_date |-> "2026-03-09"]>>
    /\ \E stored \in StoredProgressValues :
        tasksByProject =
            [k \in {1} |->
                <<[start_date |-> "2026-03-08", end_date |-> "2026-03-09",
                   status |-> "doing", progress |-> stored]>>]
    /\ progressArg = 0

SpecBar == InitBar /\ [][Next]_vars

\* Comparison: two projects, each with its own task list.
InitCompare ==
    /\ InitCommon
    /\ projects = <<[id |-> 1, start_date |-> "2026-03-08", end_date |-> "2026-03-09"],
                    [id |-> 2, start_date |-> "2026-03-08", end_date |-> "2026-03-09"]>>
    /\ \E plain \in PlainTaskLists, varied \in VariedTaskLists :
        tasksByProject = [id \in {1, 2} |-> IF id = 1 THEN plain ELSE varied]
    /\ progressArg = 0

SpecCompare == InitCompare /\ [][Next]_vars

\* Campaign calendar: the API holds any small list of campaigns; the page
\* fetches it, successfully or not, and the user switches the channel filter.
InitCalendar ==
    /\ apiEvents \in ApiEventLists
    /\ InitCalendarIdle
    /\ tz \in TimeZones
    /\ clock = Null
    /\ projects = <<>>
    /\ tasksByProject = <<>>
    /\ rendered = FALSE
    /\ renders = 0
    /\ view = NoView
    /\ progressArg = 0
    /\ progressStyle = NoStyle
    /\ InitStorageIdle
    /\ InitPageIdle
    /\ InitFormsIdle

\* loadEvents (App.jsx) and the events source with eventsSet (script.js),
\* the fetch succeeding.
LoadEvents ==
    /\ events' = Normalized(apiEvents)
    /\ saturationDays' = saturationDaysOf(filteredEvents(Normalized(apiEvents), selectedChannel))
    /\ displayedEvents' = applySelectedChannel(apiEvents, selectedChannel)
    /\ saturationAlertHidden' =
           ~checkSaturation(applySelectedChannel(apiEvents, selectedChannel))
    /\ UNCHANGED <<apiEvents, selectedChannel>>
    /\ UNCHANGED <<layoutVars, pageVars, formVars>>

\* The fetch failing: App.jsx empties `events`; script.js calls
\* failureCallback and the widget keeps what it shows.
LoadEventsFailed ==
    /\ events' = <<>>
    /\ saturationDays' = {}
    /\ UNCHANGED <<apiEvents, selectedChannel, displayedEvents, saturationAlertHidden>>
    /\ UNCHANGED <<layoutVars, pageVars, formVars>>

\* A click on a channel button: setSelectedChannel (App.jsx, the memos are
\* computed again) and applyChannelFilter (script.js, which only starts a
\* refetch).
SelectChannel ==
    /\ \E key \in ChannelKeys :
        /\ selectedChannel' = key
        /\ saturationDays' = saturationDaysOf(filteredEvents(events, key))
    /\ UNCHANGED <<apiEvents, events, displayedEvents, saturationAlertHidden>>
    /\ UNCHANGED <<layoutVars, pageVars, formVars>>

NextCalendar == LoadEvents \/ LoadEventsFailed \/ SelectChannel

SpecCalendar == InitCalendar /\ [][NextCalendar]_vars

\* The page: GanttPage mounts, loads, and is refreshed.
InitPage ==
    /\ apiEvents = <<>>
    /\ InitCalendarIdle
    /\ InitPageIdle
    /\ InitFormsIdle
    /\ tz \in TimeZones
    /\ clock = Null
    /\ projects = <<>>
    /\ tasksByProject = <<>>
    /\ rendered = FALSE
    /\ renders = 0
    /\ view = NoView
    /\ progressArg = 0
    /\ progressStyle = NoStyle
    /\ InitStorageIdle

\* loadData up to its first await (the mount effect, the refresh button, or
\* the reload after a save): the chart gives way to the loading notice, so
\* its blocks unmount.
StartLoad ==
    /\ started < MaxLoads
    /\ started' = started + 1
    /\ inflight' = inflight \cup {started + 1}
    /\ loading' = TRUE
    /\ error' = ""
    /\ rendered' = FALSE
    /\ view' = NoView
    /\ memo' = <<>>
    /\ expandedProjects' = EmptyObject
    /\ UNCHANGED <<tz, clock, projects, tasksByProject, renders, progressArg, storage, mounts,
                   progressStyle, dataSerial>>
    /\ UNCHANGED calendarVars

\* An open modal is an overlay over the whole page (`fixed inset-0`): the
\* buttons of the header and of the chart are out of reach under it.
NoModalOpen == ~isProjectModalOpen /\ ~isTaskModalOpen

\* The mount effect or the button "Atualizar".
LoadData ==
    /\ NoModalOpen
    /\ StartLoad
    /\ UNCHANGED formVars

\* Faulty variant: a save that awaited its reload never reaches its finally
\* block.
FinishSavesNever(call) ==
    UNCHANGED <<projectModalVars, projectSaveVars, isTaskModalOpen, editingTask,
                taskModalError, taskSaveVars, toasts, toastSerial, submitCount, writeCount,
                lastSubmit, lastResponse>>

\* The submit handlers awaiting loadData call `call` go on to their finally
\* blocks once it returns.
FinishSaves(call) ==
    /\ projectSaving' = IF projectReload = call THEN FALSE ELSE projectSaving
    /\ projectReload' = IF projectReload = call THEN 0 ELSE projectReload
    /\ taskSaving' = IF taskReload = call THEN FALSE ELSE taskSaving
    /\ taskReload' = IF taskReload = call THEN 0 ELSE taskReload
    /\ UNCHANGED <<isProjectModalOpen, editingProject, projectModalError, projectForm,
                   projectWrite, isTaskModalOpen, editingTask, taskModalError, taskWrite,
                   toasts, toastSerial, submitCount, writeCount, lastSubmit, lastResponse>>

\* The effect of an open TaskModal runs again when `projects` is replaced.
ResetTaskForm(projs) ==
    taskForm' = IF isTaskModalOpen THEN TaskFormOf(editingTask, projs) ELSE taskForm

\* The page renders the chart over its new state (loading is false); the
\* clock is read when no date parses.
ShowChart(projs, tbp, serial) ==
    \E now \in IF CollectDates(tz, projs, tbp) = {}
                THEN NowInstants ELSE {CHOOSE t \in NowInstants : TRUE} :
        /\ view' = MountedChart(tz, IF loading THEN <<>> ELSE memo, projs, tbp, serial, now)
        /\ memo' = ChartMemo(IF loading THEN <<>> ELSE memo, projs, tbp, serial)
        /\ clock' = IF CollectDates(tz, projs, tbp) = {} THEN Date(now) ELSE clock
        /\ MountExpanded
        /\ rendered' = TRUE

\* loadData after its awaits, every fetch having succeeded: setProjects,
\* setTasksByProject, and setLoading(false) in the finally block.
LoadSucceededWith(payloads) ==
    /\ \E call \in inflight, payload \in payloads :
        /\ inflight' = inflight \ {call}
        /\ projects' = payload.projects
        /\ tasksByProject' = payload.tasks
        /\ dataSerial' = call
        /\ ShowChart(payload.projects, payload.tasks, call)
        /\ ResetTaskForm(payload.projects)
        /\ FinishSaves(call)
    /\ loading' = FALSE
    /\ UNCHANGED <<tz, renders, progressArg, progressStyle, error, started>>
    /\ UNCHANGED calendarVars

LoadSucceeded == LoadSucceededWith(PagePayloads)

\* loadData with the project fetch or one task fetch failing: the catch block
\* empties both and sets the message, the finally block clears `loading`.
LoadFailed ==
    /\ \E call \in inflight :
        /\ inflight' = inflight \ {call}
        /\ dataSerial' = call
        /\ ShowChart(<<>>, <<>>, call)
        /\ ResetTaskForm(<<>>)
        /\ FinishSaves(call)
    /\ projects' = <<>>
    /\ tasksByProject' = <<>>
    /\ error' = "Falha na requisicao: /api/projects"
    /\ loading' = FALSE
    /\ UNCHANGED <<tz, renders, progressArg, progressStyle, started>>
    /\ UNCHANGED calendarVars

NextPage == LoadData \/ LoadSucceeded \/ LoadFailed

SpecPage == InitPage /\ [][NextPage]_vars

\* The forms: the page has loaded two projects; the user opens the modals,
\* submits, and the write requests succeed or fail.
InitForms ==
    /\ apiEvents = <<>>
    /\ InitCalendarIdle
    /\ InitFormsIdle
    /\ tz \in {zone \in TimeZones : zone.name = "UTC"}
    /\ clock = Null
    /\ projects = LoadedPayload.projects
    /\ tasksByProject = LoadedPayload.tasks
    /\ rendered = TRUE
    /\ expandedProjects = EmptyObject
    /\ storage = JSONstringify(EmptyObject)
    /\ mounts = 1
    /\ renders = 0
    /\ view = MountedChart(tz, <<>>, LoadedPayload.projects, LoadedPayload.tasks, 1,
                           CHOOSE t \in NowInstants : TRUE)
    /\ memo = ChartMemo(<<>>, LoadedPayload.projects, LoadedPayload.tasks, 1)
    /\ progressArg = 0
    /\ progressStyle = NoStyle
    /\ loading = FALSE
    /\ error = ""
    /\ started = 1
    /\ inflight = {}
    /\ dataSerial = 1

\* In the form scenarios the server keeps answering with the two projects
\* the page started from.
ReloadSucceeded == LoadSucceededWith({LoadedPayload})

\* showToast: the toast is appended under an id of its own
\* (Date.now() + Math.random()), here the number of the call.
showToast(message) ==
    /\ toastSerial' = toastSerial + 1
    /\ toasts' = toasts \cup {[id |-> toastSerial + 1, message |-> message]}

\* The button "Novo Projeto" of the header.
openCreateProject ==
    /\ NoModalOpen
    /\ editingProject' = Null
    /\ projectForm' = ProjectFormOf(Null)
    /\ projectModalError' = ""
    /\ isProjectModalOpen' = TRUE
    /\ UNCHANGED <<projectSaveVars, taskModalVars, taskSaveVars, toasts, toastSerial, historyVars>>
    /\ UNCHANGED <<layoutVars, calendarVars, pageVars>>

\* The edit button of a project block of the chart.
openEditProject ==
    /\ NoModalOpen
    /\ ~loading
    /\ \E k \in 1..Len(projects) :
        /\ editingProject' = <<projects[k]>>
        /\ projectForm' = ProjectFormOf(<<projects[k]>>)
    /\ projectModalError' = ""
    /\ isProjectModalOpen' = TRUE
    /\ UNCHANGED <<projectSaveVars, taskModalVars, taskSaveVars, toasts, toastSerial, historyVars>>
    /\ UNCHANGED <<layoutVars, calendarVars, pageVars>>

closeProjectModal ==
    /\ isProjectModalOpen
    /\ isProjectModalOpen' = FALSE
    /\ editingProject' = Null
    /\ projectModalError' = ""
    /\ UNCHANGED <<projectForm, projectSaveVars, taskModalVars, taskSaveVars, toasts, toastSerial,
                   historyVars>>
    /\ UNCHANGED <<layoutVars, calendarVars, pageVars>>

\* The button "+ Tarefa" of a project block.
openCreateTask ==
    /\ NoModalOpen
    /\ ~loading
    /\ \E k \in 1..Len(projects) :
        /\ editingTask' = <<[project_id |-> projects[k].id]>>
        /\ taskForm' = TaskFormOf(<<[project_id |-> projects[k].id]>>, projects)
    /\ taskModalError' = ""
    /\ isTaskModalOpen' = TRUE
    /\ UNCHANGED <<projectModalVars, projectSaveVars, taskSaveVars, toasts, toastSerial, historyVars>>
    /\ UNCHANGED <<layoutVars, calendarVars, pageVars>>

\* The edit button of a task row.
openEditTask ==
    /\ NoModalOpen
    /\ ~loading
    /\ \E k \in 1..Len(projects) :
        \E i \in 1..Len(TasksOf(tasksByProject, projects[k].id)) :
            /\ editingTask' = <<TasksOf(tasksByProject, projects[k].id)[i]>>
            /\ taskForm' = TaskFormOf(<<TasksOf(tasksByProject, projects[k].id)[i]>>,
                                      projects)
    /\ taskModalError' = ""
    /\ isTaskModalOpen' = TRUE
    /\ UNCHANGED <<projectModalVars, projectSaveVars, taskSaveVars, toasts, toastSerial, historyVars>>
    /\ UNCHANGED <<layoutVars, calendarVars, pageVars>>

closeTaskModal ==
    /\ isTaskModalOpen
    /\ isTaskModalOpen' = FALSE
    /\ editingTask' = Null
    /\ taskModalError' = ""
    /\ UNCHANGED <<taskForm, projectModalVars, projectSaveVars, taskSaveVars, toasts, toastSerial,
                   historyVars>>
    /\ UNCHANGED <<layoutVars, calendarVars, pageVars>>

\* The project modal submits (its button is disabled while projectSaving):
\* handleProjectSubmit up to its return or its first await.
handleProjectSubmit ==
    /\ isProjectModalOpen
    /\ ~projectSaving
    /\ submitCount < MaxSubmits
    /\ \E form \in ProjectForms :
        LET payload == ProjectModalSubmit(form)
        IN  /\ projectForm' = form
            /\ lastSubmit' = <<[kind |-> "project", payload |-> payload]>>
            /\ IF payload.name = ""
               THEN /\ projectModalError' = "Nome do projeto e obrigatorio."
                    /\ UNCHANGED <<projectSaveVars, writeCount>>
               ELSE /\ projectModalError' = ""
                    /\ projectSaving' = TRUE
                    /\ projectWrite' =
                           <<[payload |-> payload,
                              request |-> ProjectRequest(editingProject, payload)]>>
                    /\ writeCount' = writeCount + 1
                    /\ UNCHANGED projectReload
    /\ submitCount' = submitCount + 1
    /\ UNCHANGED lastResponse
    /\ UNCHANGED <<isProjectModalOpen, editingProject, taskModalVars, taskSaveVars, toasts, toastSerial>>
    /\ UNCHANGED <<layoutVars, calendarVars, pageVars>>

\* The write request of handleProjectSubmit is answered with success: toast,
\* closeProjectModal, and loadData is called and awaited.
ProjectWriteSucceeded ==
    /\ projectWrite # Null
    /\ showToast(IF projectWrite[1].request.method = "PUT"
                 THEN "Projeto atualizado" ELSE "Projeto criado")
    /\ isProjectModalOpen' = FALSE
    /\ editingProject' = Null
    /\ projectModalError' = ""
    /\ StartLoad
    /\ projectWrite' = Null
    /\ projectReload' = started + 1
    /\ lastResponse' = "ok"
    /\ UNCHANGED <<projectForm, projectSaving, taskModalVars, taskSaveVars,
                   submitCount, writeCount, lastSubmit>>

\* Faulty variant: a failed request is followed by closeProjectModal and
\* loadData like a successful one.
ProjectWriteFailedThenReload ==
    /\ projectWrite # Null
    /\ isProjectModalOpen' = FALSE
    /\ editingProject' = Null
    /\ projectModalError' = "Falha na requisicao"
    /\ StartLoad
    /\ projectWrite' = Null
    /\ projectReload' = started + 1
    /\ lastResponse' = "failed"
    /\ UNCHANGED <<projectForm, projectSaving, taskModalVars, taskSaveVars, toasts, toastSerial,
                   submitCount, writeCount, lastSubmit>>

\* The write request fails: the catch block sets the message, the finally
\* block clears projectSaving.
ProjectWriteFailed ==
    /\ projectWrite # Null
    /\ projectModalError' = "Falha na requisicao"
    /\ projectSaving' = FALSE
    /\ projectWrite' = Null
    /\ UNCHANGED <<isProjectModalOpen, editingProject, projectForm, projectReload,
                   taskModalVars, taskSaveVars, toasts, toastSerial, submitCount, writeCount,
                   lastSubmit>>
    /\ lastResponse' = "failed"
    /\ UNCHANGED <<layoutVars, calendarVars, pageVars>>

\* The task modal submits: handleTaskSubmit up to its return or its first
\* await.  The page hands the modal no tasksByProject and no currentTaskId;
\* the modal of a task under edit has its project locked.
handleTaskSubmit ==
    /\ isTaskModalOpen
    /\ editingTask # Null
    /\ ~taskSaving
    /\ submitCount < MaxSubmits
    /\ \E form \in TaskForms(editingTask[1].project_id, HasId(editingTask),
                              projects, Null, 0) :
        LET payload == TaskModalSubmit(form)
        IN  /\ taskForm' = form
            /\ lastSubmit' = <<[kind |-> "task", payload |-> payload]>>
            /\ IF payload.title = ""
               THEN /\ taskModalError' = "Titulo da tarefa e obrigatorio."
                    /\ UNCHANGED <<taskSaveVars, writeCount>>
               ELSE IF ~HasId(editingTask) /\ Falsy(payload.project_id)
               THEN /\ taskModalError' = "Selecione um projeto."
                    /\ UNCHANGED <<taskSaveVars, writeCount>>
               ELSE /\ taskModalError' = ""
                    /\ taskSaving' = TRUE
                    /\ taskWrite' =
                           <<[payload |-> payload,
                              request |-> TaskRequest(editingTask, payload)]>>
                    /\ writeCount' = writeCount + 1
                    /\ UNCHANGED taskReload
    /\ submitCount' = submitCount + 1
    /\ UNCHANGED lastResponse
    /\ UNCHANGED <<isTaskModalOpen, editingTask, projectModalVars, projectSaveVars, toasts, toastSerial>>
    /\ UNCHANGED <<layoutVars, calendarVars, pageVars>>

TaskWriteSucceeded ==
    /\ taskWrite # Null
    /\ showToast(IF taskWrite[1].request.method = "PUT"
                 THEN "Tarefa atualizada" ELSE "Tarefa criada")
    /\ isTaskModalOpen' = FALSE
    /\ editingTask' = Null
    /\ taskModalError' = ""
    /\ StartLoad
    /\ taskWrite' = Null
    /\ taskReload' = started + 1
    /\ lastResponse' = "ok"
    /\ UNCHANGED <<taskForm, taskSaving, projectModalVars, projectSaveVars,
                   submitCount, writeCount, lastSubmit>>

TaskWriteFailed ==
    /\ taskWrite # Null
    /\ taskModalError' = "Falha na requisicao"
    /\ taskSaving' = FALSE
    /\ taskWrite' = Null
    /\ UNCHANGED <<isTaskModalOpen, editingTask, taskForm, taskReload, projectModalVars,
                   projectSaveVars, toasts, toastSerial, submitCount, writeCount, lastSubmit>>
    /\ lastResponse' = "failed"
    /\ UNCHANGED <<layoutVars, calendarVars, pageVars>>

\* Faulty variant: the timer empties the list.
RemoveToastAll(id) == {}

\* `prev.filter((toast) => toast.id !== id)`
RemoveToast(id) == {toast \in toasts : toast.id # id}

\* The timer showToast set for toast `id` fires.
ToastTimeoutOf(id) ==
    /\ \E toast \in toasts : toast.id = id
    /\ toasts' = RemoveToast(id)
    /\ UNCHANGED <<toastSerial, projectModalVars, projectSaveVars, taskModalVars, taskSaveVars,
                   historyVars>>
    /\ UNCHANGED <<layoutVars, calendarVars, pageVars>>

\* The timer showToast set removes its toast.
ToastTimeout ==
    /\ \E toast \in toasts : toasts' = RemoveToast(toast.id)
    /\ UNCHANGED <<toastSerial, projectModalVars, projectSaveVars, taskModalVars, taskSaveVars,
                   historyVars>>
    /\ UNCHANGED <<layoutVars, calendarVars, pageVars>>

NextForms ==
    \/ openCreateProject
    \/ openEditProject
    \/ closeProjectModal
    \/ openCreateTask
    \/ openEditTask
    \/ closeTaskModal
    \/ handleProjectSubmit
    \/ ProjectWriteSucceeded
    \/ ProjectWriteFailed
    \/ handleTaskSubmit
    \/ TaskWriteSucceeded
    \/ TaskWriteFailed
    \/ ToastTimeout
    \/ LoadData
    \/ ReloadSucceeded
    \/ LoadFailed

SpecForms == InitForms /\ [][NextForms]_vars

\* Toasts on their own: a save succeeds and calls showToast, timers fire.
ToastMessages ==
    {"Projeto criado", "Projeto atualizado", "Tarefa criada", "Tarefa atualizada"}

InitToasts ==
    /\ InitCommon
    /\ projects = <<>>
    /\ tasksByProject = <<>>
    /\ progressArg = 0

ShowToast ==
    /\ toastSerial < MaxToasts
    /\ \E message \in ToastMessages : showToast(message)
    /\ UNCHANGED <<projectModalVars, projectSaveVars, taskModalVars, taskSaveVars,
                   historyVars>>
    /\ UNCHANGED <<layoutVars, calendarVars, pageVars>>

NextToasts == ShowToast \/ ToastTimeout

SpecToasts == InitToasts /\ [][NextToasts]_vars

\* Every timer set fires.
SpecToastsFair ==
    /\ SpecToasts
    /\ \A id \in 1..MaxToasts : WF_vars(ToastTimeoutOf(id))

\* Every HTTP request is answered or fails, and every timer set fires.
SpecFormsFair ==
    /\ SpecForms
    /\ WF_vars(LoadFailed \/ ReloadSucceeded)
    /\ WF_vars(ProjectWriteFailed \/ ProjectWriteSucceeded)
    /\ WF_vars(TaskWriteFailed \/ TaskWriteSucceeded)
    /\ \A id \in 1..MaxSubmits : WF_vars(ToastTimeoutOf(id))

\* Style: getProgressStyle applied to every progress value.
InitStyle ==
    /\ InitCommon
    /\ projects = <<>>
    /\ tasksByProject = <<>>
    /\ progressArg \in 0..MaxProgress

ApplyProgressStyle ==
    /\ progressStyle = NoStyle
    /\ progressStyle' = getProgressStyle(progressArg)
    /\ UNCHANGED <<tz, clock, projects, tasksByProject, rendered, renders, view,
                   progressArg, storage, expandedProjects, mounts>>
    /\ UNCHANGED <<calendarVars, pageVars, formVars>>

NextStyle == ApplyProgressStyle

SpecStyle == InitStyle /\ [][NextStyle]_vars

----------------------------------------------------------------------------
(* Vocabulary of the properties: calendar days read off the date strings,  *)
(* independently of the Date arithmetic above.                             *)

Parseable(value) == value # "" /\ IsIso(value)

CalDay(value) == DayNumber(ParseIso(value)[1], ParseIso(value)[2])

TasksOfProject(k) == TasksOf(tasksByProject, projects[k].id)

\* <<k, i>>: the i-th task of the k-th listed project.
TaskSlots ==
    UNION { {<<k, i>> : i \in 1..Len(TasksOfProject(k))} : k \in 1..Len(projects) }

TaskAt(slot) == TasksOfProject(slot[1])[slot[2]]

BarAt(slot) == view.blocks[slot[1]].bars[slot[2]]

\* <<start_date, end_date>> of every listed project and every task of one.
InputRanges ==
    {<<projects[k].start_date, projects[k].end_date>> : k \in 1..Len(projects)}
    \cup {<<TaskAt(slot).start_date, TaskAt(slot).end_date>> : slot \in TaskSlots}

InputDays ==
    {CalDay(r[1]) : r \in {q \in InputRanges : Parseable(q[1])}}
    \cup {CalDay(r[2]) : r \in {q \in InputRanges : Parseable(q[2])}}

Earliest(days) == CHOOSE d \in days : \A e \in days : d <= e

Latest(days) == CHOOSE d \in days : \A e \in days : d >= e

Reversed(start, end) ==
    Parseable(start) /\ Parseable(end) /\ CalDay(end) < CalDay(start)

ValidRange(start, end) ==
    Parseable(start) /\ Parseable(end) /\ CalDay(start) <= CalDay(end)

RangesValid == \A r \in InputRanges : ~Reversed(r[1], r[2])

\* A Date that reads 00:00 local time on calendar day `day`.
IsLocalMidnightOf(date, day) ==
    /\ date # Null
    /\ LocalDay(tz, getTime(date)) = day
    /\ LocalHourOfDay(tz, getTime(date)) = 0

TierOf(style) ==
    CASE style.fill = "bg-rose-400" /\ style.track = "bg-rose-100" -> "low"
      [] style.fill = "bg-amber-400" /\ style.track = "bg-amber-100" -> "medium"
      [] style.fill = "bg-emerald-500" /\ style.track = "bg-emerald-100" -> "high"
      [] OTHER -> "none"

DoneCount(tasks) == Cardinality({i \in 1..Len(tasks) : tasks[i].status = "done"})

----------------------------------------------------------------------------
(* Properties *)

\* C1: when at least one project or task date parses and no range is
\* reversed, getTimelineBounds returns local midnight of (earliest date - 2
\* days) as start and of (latest date + 2 days) as end.
C1_BoundsPadTwoDays ==
    (rendered /\ InputDays # {} /\ RangesValid) =>
        /\ IsLocalMidnightOf(view.timeline.bounds.start, Earliest(InputDays) - 2)
        /\ IsLocalMidnightOf(view.timeline.bounds.end, Latest(InputDays) + 2)

\* A render in New York where a task ends after every project date, so the
\* task sets the maximum, across the start of daylight time.
C1_Witness ==
    /\ rendered
    /\ tz.name = "America/New_York"
    /\ RangesValid
    /\ Len(projects) = 1
    /\ projects[1].start_date = "2026-03-08"
    /\ projects[1].end_date = "2026-03-08"
    /\ \E slot \in TaskSlots : TaskAt(slot).end_date = "2026-03-09"
    /\ IsLocalMidnightOf(view.timeline.bounds.start, CalDay("2026-03-08") - 2)
    /\ IsLocalMidnightOf(view.timeline.bounds.end, CalDay("2026-03-09") + 2)

\* C2: with no parseable date anywhere, the timeline starts on the first day
\* of the current (local) month and has exactly 31 days.
C2_FallbackSpans31Days ==
    (rendered /\ InputDays = {}) =>
        /\ clock # Null
        /\ IsLocalMidnightOf(view.timeline.timelineStart,
                             DaysBeforeMonth[MonthOfDay(LocalDay(tz, getTime(clock)))])
        /\ view.timeline.timelineDays = 31

\* C3: totalDays is at least 1 for every input.
C3_TotalDaysAtLeastOne ==
    rendered => view.timeline.timelineDays >= 1

\* A render whose only dates are those of one reversed task.
C3_Witness ==
    /\ rendered
    /\ Len(projects) = 1
    /\ ~Parseable(projects[1].start_date)
    /\ ~Parseable(projects[1].end_date)
    /\ \E slot \in TaskSlots : Reversed(TaskAt(slot).start_date, TaskAt(slot).end_date)
    /\ view.timeline.timelineDays >= 1

\* C4: a task whose end is before its start gets no bar, and the timeline
\* still reaches 2 days before its end date and 2 days after its start date.
C4_ReversedTaskNoBarButInBounds ==
    rendered =>
        \A slot \in TaskSlots :
            Reversed(TaskAt(slot).start_date, TaskAt(slot).end_date) =>
                /\ BarAt(slot) = Null
                /\ LocalDay(tz, getTime(view.timeline.bounds.start))
                       <= CalDay(TaskAt(slot).end_date) - 2
                /\ LocalDay(tz, getTime(view.timeline.bounds.end))
                       >= CalDay(TaskAt(slot).start_date) + 2

\* A reversed task next to a project dated 2026-03-08 only: the task's start
\* is what moves the end of the timeline to 2026-03-11.
C4_Witness ==
    /\ rendered
    /\ Len(projects) = 1
    /\ projects[1].start_date = "2026-03-08"
    /\ projects[1].end_date = "2026-03-08"
    /\ \E slot \in TaskSlots :
        /\ TaskAt(slot).start_date = "2026-03-09"
        /\ TaskAt(slot).end_date = "2026-03-08"
        /\ BarAt(slot) = Null
    /\ IsLocalMidnightOf(view.timeline.bounds.end, CalDay("2026-03-09") + 2)

\* C5: for a task with valid start <= end the bar is
\* max(columnWidth, (days from start to end + 1) * columnWidth) wide.
C5_WidthIsInclusiveDayCount ==
    rendered =>
        \A slot \in TaskSlots :
            ValidRange(TaskAt(slot).start_date, TaskAt(slot).end_date) =>
                /\ BarAt(slot) # Null
                /\ BarAt(slot)[1].width =
                       Max(DAY_WIDTH,
                           (CalDay(TaskAt(slot).end_date)
                            - CalDay(TaskAt(slot).start_date) + 1) * DAY_WIDTH)

\* C6: for a rendered bar, left = (days from the padded timeline start to the
\* task's start) * columnWidth.
C6_LeftIsDaysFromRangeStart ==
    rendered =>
        \A slot \in TaskSlots :
            BarAt(slot) # Null =>
                BarAt(slot)[1].left =
                    (CalDay(TaskAt(slot).start_date)
                     - LocalDay(tz, getTime(view.timeline.bounds.start))) * DAY_WIDTH

\* C7: no bar exactly when the start is missing or unparseable, or the end is
\* missing or unparseable, or the end precedes the start; otherwise a bar
\* with a left and a width.
C7_NotRenderableExactly ==
    rendered =>
        \A slot \in TaskSlots :
            /\ BarAt(slot) = Null <=>
                   \/ ~Parseable(TaskAt(slot).start_date)
                   \/ ~Parseable(TaskAt(slot).end_date)
                   \/ Reversed(TaskAt(slot).start_date, TaskAt(slot).end_date)
            /\ BarAt(slot) # Null =>
                   /\ Len(BarAt(slot)) = 1
                   /\ {"left", "width"} \subseteq DOMAIN BarAt(slot)[1]
                   /\ BarAt(slot)[1].left \in Int
                   /\ BarAt(slot)[1].width \in Int

\* A task with a start and an unparseable end, rendered without a bar.
C7_Witness ==
    /\ rendered
    /\ \E slot \in TaskSlots :
        /\ TaskAt(slot).start_date = "2026-03-08"
        /\ TaskAt(slot).end_date = "invalid"
        /\ BarAt(slot) = Null

\* C8: getProjectProgress is round(100 * done / count) for a non-empty task
\* list (the nearest integer, a tie going up) and 0 for an empty one.
C8_ProgressIsRoundedRatio ==
    rendered =>
        \A k \in 1..Len(projects) :
            LET tasks == TasksOfProject(k)
                n == Len(tasks)
                p == view.blocks[k].progress
            IN  /\ n = 0 => p = 0
                /\ n > 0 =>
                       /\ -n <= 2 * (100 * DoneCount(tasks) - p * n)
                       /\ 2 * (100 * DoneCount(tasks) - p * n) < n

\* C9: progress is an integer in 0..100; a project without tasks has
\* progress 0 and tier low.
C9_ProgressInRange ==
    rendered =>
        \A k \in 1..Len(projects) :
            /\ view.blocks[k].progress \in 0..100
            /\ Len(TasksOfProject(k)) = 0 =>
                   /\ view.blocks[k].progress = 0
                   /\ TierOf(view.blocks[k].progressStyle) = "low"

\* A project without tasks, rendered.
C9_Witness ==
    /\ rendered
    /\ Len(projects) = 1
    /\ Len(TasksOfProject(1)) = 0
    /\ view.blocks[1].progress = 0
    /\ view.blocks[1].progressStyle.fill = "bg-rose-400"

\* C10: progress < 40 is low (rose), 40 <= progress < 80 is medium (amber),
\* progress >= 80 is high (emerald); every value has exactly one tier.
C10_TierThresholds ==
    progressStyle # NoStyle =>
        /\ TierOf(progressStyle) \in {"low", "medium", "high"}
        /\ TierOf(progressStyle) = "low" <=> progressArg < 40
        /\ TierOf(progressStyle) = "medium" <=> (40 <= progressArg /\ progressArg < 80)
        /\ TierOf(progressStyle) = "high" <=> progressArg >= 80

\* The boundary value 79, still medium.
C10_Witness ==
    /\ progressArg = 79
    /\ progressStyle.fill = "bg-amber-400"
    /\ progressStyle.track = "bg-amber-100"

\* C11: for the project 2026-02-01..2026-02-10 with the tasks
\* 2026-02-03..2026-02-05 (done) and 2026-02-05..2026-02-05 (planned), the
\* timeline runs from 2026-01-30 to 2026-02-12 and has 14 days, the project's
\* progress is 50 with the medium tier, and the first task's bar starts 4
\* columns from the left and is 3 columns wide.
C11_WorkedExample ==
    (rendered /\ projects = ExampleProjects /\ tasksByProject = ExampleTasksByProject) =>
        /\ IsLocalMidnightOf(view.timeline.timelineStart, CalDay("2026-01-30"))
        /\ IsLocalMidnightOf(view.timeline.bounds.end, CalDay("2026-02-12"))
        /\ view.timeline.timelineDays = 14
        /\ view.blocks[1].progress = 50
        /\ TierOf(view.blocks[1].progressStyle) = "medium"
        /\ BarAt(<<1, 1>>) # Null
        /\ BarAt(<<1, 1>>)[1].left = 4 * DAY_WIDTH
        /\ BarAt(<<1, 1>>)[1].width = 3 * DAY_WIDTH

\* The worked example, rendered in New York.
C11_Witness ==
    /\ rendered
    /\ tz.name = "America/New_York"
    /\ projects = ExampleProjects
    /\ tasksByProject = ExampleTasksByProject
    /\ Len(view.timeline.headerDates) = 14

\* A stored progress that is no number: a string spelling none, or a missing
\* field.
NonNumeric(value) == value.kind \in {"text", "undefined"}

HasDate(item) == Parseable(item.start_date) \/ Parseable(item.end_date)

\* tasksByProject without the tasks that have no parseable date.
DatedTasksByProject ==
    [id \in DOMAIN tasksByProject |-> SelectSeq(tasksByProject[id], HasDate)]

\* C13: missing and unparseable dates are absent and stop no render: the
\* timeline is computed from the parseable dates alone (an item without any
\* adds nothing: the fallback applies when no date parses, otherwise the
\* bounds are the earliest day - 2 and the latest day + 2, the same as without
\* the dateless tasks and without the dateless projects that list no task),
\* and a task with only one parseable date has no bar.
C13_AbsentDatesIgnored ==
    rendered =>
        /\ view.timeline.bounds.start # Null
        /\ view.timeline.bounds.end # Null
        /\ Len(view.blocks) = Len(projects)
        /\ InputDays = {} =>
               /\ clock # Null
               /\ view.timeline.bounds =
                      getTimelineBounds(tz, <<>>, <<>>, getTime(clock))
        /\ InputDays # {} =>
               /\ clock = Null
               /\ IsLocalMidnightOf(view.timeline.bounds.start, Earliest(InputDays) - 2)
               /\ IsLocalMidnightOf(view.timeline.bounds.end, Latest(InputDays) + 2)
               /\ (\A k \in 1..Len(projects) :
                       HasDate(projects[k]) \/ Len(TasksOfProject(k)) = 0)
                      => view.timeline.bounds =
                             getTimelineBounds(tz, SelectSeq(projects, HasDate),
                                               DatedTasksByProject, 0)
               /\ view.timeline.bounds =
                      getTimelineBounds(tz, projects, DatedTasksByProject, 0)
        /\ \A slot \in TaskSlots :
               (Parseable(TaskAt(slot).start_date) # Parseable(TaskAt(slot).end_date))
                   => BarAt(slot) = Null

\* A project without any date whose one task has a start and an unparseable
\* end: the timeline is laid around the task's start, and the task has no bar.
C13_Witness ==
    /\ rendered
    /\ Len(projects) = 1
    /\ projects[1].start_date = ""
    /\ projects[1].end_date = "invalid"
    /\ Len(TasksOfProject(1)) = 1
    /\ TaskAt(<<1, 1>>).start_date = "2026-03-09"
    /\ TaskAt(<<1, 1>>).end_date = "invalid"
    /\ BarAt(<<1, 1>>) = Null
    /\ IsLocalMidnightOf(view.timeline.bounds.start, CalDay("2026-03-09") - 2)
    /\ IsLocalMidnightOf(view.timeline.bounds.end, CalDay("2026-03-09") + 2)

\* C14: two task lists with the same number of tasks and the same number of
\* done tasks have the same progress, whatever the order of the tasks, their
\* own progress, their dates and their priority, and whichever tasks are the
\* done ones.
C14_ProgressDependsOnCountsOnly ==
    rendered =>
        \A k, l \in 1..Len(projects) :
            (/\ Len(TasksOfProject(k)) = Len(TasksOfProject(l))
             /\ DoneCount(TasksOfProject(k)) = DoneCount(TasksOfProject(l)))
                => view.blocks[k].progress = view.blocks[l].progress

\* Two projects of two tasks, one of them done: the first project's done task
\* comes first and has progress 0, the second project's done task comes last
\* and the task before it has progress 100, no start date and high priority.
C14_Witness ==
    /\ rendered
    /\ Len(projects) = 2
    /\ Len(TasksOfProject(1)) = 2
    /\ Len(TasksOfProject(2)) = 2
    /\ TaskAt(<<1, 1>>).status = "done"
    /\ TaskAt(<<1, 2>>).status = "doing"
    /\ TaskAt(<<2, 1>>).status = "planned"
    /\ TaskAt(<<2, 1>>).progress = NumberValue(100)
    /\ TaskAt(<<2, 1>>).start_date = ""
    /\ TaskAt(<<2, 1>>).priority = "high"
    /\ TaskAt(<<2, 2>>).status = "done"
    /\ TaskAt(<<2, 2>>).progress = NumberValue(0)
    /\ view.blocks[1].progress = 50
    /\ view.blocks[2].progress = 50

\* C16: with at least one parseable date in the input, computing the
\* timeline again over the same projects and tasks gives the same start and
\* end whatever the wall clock reads then, and the clock is not read.
C16_BoundsIgnoreClock ==
    [][(/\ rendered
        /\ InputDays # {}
        /\ projects' = projects
        /\ tasksByProject' = tasksByProject)
           => /\ view'.timeline.bounds = view.timeline.bounds
              /\ clock' = clock]_vars

\* The timeline of a dated input has been computed twice.
C16_Witness ==
    /\ renders = 2
    /\ InputDays # {}
    /\ clock = Null
    /\ IsLocalMidnightOf(view.timeline.bounds.start, Earliest(InputDays) - 2)

\* C17: the timeline is totalDays * 42 pixels wide, and its header is exactly
\* totalDays days long: the range start and the calendar days following it,
\* one after the other.
C17_WidthAndHeader ==
    rendered =>
        /\ DAY_WIDTH = 42
        /\ view.timeline.timelineWidth = view.timeline.timelineDays * 42
        /\ Len(view.timeline.headerDates) = view.timeline.timelineDays
        /\ \A index \in 1..Len(view.timeline.headerDates) :
               IsLocalMidnightOf(view.timeline.headerDates[index],
                                 LocalDay(tz, getTime(view.timeline.bounds.start))
                                 + index - 1)

\* A header that runs across the start of daylight time in New York, from
\* 2026-03-06 to 2026-03-10.
C17_Witness ==
    /\ rendered
    /\ tz.name = "America/New_York"
    /\ Len(view.timeline.headerDates) = 5
    /\ IsLocalMidnightOf(view.timeline.headerDates[1], CalDay("2026-03-08") - 2)
    /\ IsLocalMidnightOf(view.timeline.headerDates[5], CalDay("2026-03-10"))
    /\ view.timeline.timelineWidth = 210

\* Campaigns among `evts` on one day, counted off the list itself.
CampaignsOn(evts, day) ==
    Cardinality({i \in 1..Len(evts) : evts[i].start = day})

MoreThanThreeOnADay(evts) ==
    \E day \in {"2026-03-08", "2026-03-09"} : CampaignsOn(evts, day) > 3

\* C19: the saturation alert is shown exactly when some day has more than 3
\* campaigns among the events displayed (React page: the events passing the
\* channel filter; script.js: the events the calendar widget holds).
C19_AlertIffMoreThanThree ==
    /\ (saturationDays # {})
           <=> MoreThanThreeOnADay(filteredEvents(events, selectedChannel))
    /\ (~saturationAlertHidden) <=> MoreThanThreeOnADay(displayedEvents)

\* C15: whenever the chart is shown, after any loads that succeeded or
\* failed, it has one block per listed project, and the progress of each is
\* getProjectProgress of the tasks tasksByProject holds for the project's id
\* now (of no tasks when it holds none); the tier shown is that of this value.
C15_ProgressDerivedFromCurrentTasks ==
    (~loading /\ rendered) =>
        /\ Len(view.blocks) = Len(projects)
        /\ \A k \in 1..Len(projects) :
               /\ view.blocks[k].progress =
                      getProjectProgress(TasksOf(tasksByProject, projects[k].id))
               /\ view.blocks[k].progressStyle =
                      getProgressStyle(getProjectProgress(TasksOf(tasksByProject,
                                                                  projects[k].id)))

\* Two loads overlapped and both have answered, the second while the chart
\* was shown: project 1 is listed with its one task done, project 2 with its
\* one task not done.
C15_Witness ==
    /\ ~loading
    /\ rendered
    /\ started = 2
    /\ inflight = {}
    /\ dataSerial = 2
    /\ Len(projects) = 2
    /\ Len(TasksOfProject(1)) = 1
    /\ Len(TasksOfProject(2)) = 1
    /\ view.blocks[1].progress = 100
    /\ view.blocks[2].progress = 0

\* The field names of a Task that a create or update request carries.
TaskFieldNames ==
    {"title", "description", "start_date", "end_date", "status", "priority",
     "progress", "depends_on_task_id"}

\* C18: the body of a task create or update request in flight has exactly
\* the Task fields title, description, start_date, end_date, status,
\* priority, progress and depends_on_task_id, each with the value the task
\* form submitted.
C18_TaskBodyMirrorsFields ==
    taskWrite # Null =>
        /\ DOMAIN taskWrite[1].request.body = TaskFieldNames
        /\ \A field \in DOMAIN taskWrite[1].request.body :
               taskWrite[1].request.body[field] = taskWrite[1].payload[field]

\* The record under edit is an existing one (the chart's edit buttons hand
\* over a listed project or task; "+ Tarefa" hands over a project id only).
ExistingUnderEdit(editing) == editing # Null /\ "id" \in DOMAIN editing[1]

\* C20 as stated: every submit of the project form issues exactly one write
\* request, PUT /api/projects/{id} with the id of the project under edit
\* when there is one and POST /api/projects otherwise; every submit of the
\* task form issues exactly one, PUT /api/tasks/{id} for an existing task
\* and POST /api/projects/{project_id}/tasks for a new one.
C20_EverySubmitIssuesOneWrite ==
    [][submitCount' # submitCount =>
        /\ writeCount' = writeCount + 1
        /\ lastSubmit'[1].kind = "project" =>
               /\ projectWrite' # Null
               /\ projectWrite'[1].request.method =
                      IF ExistingUnderEdit(editingProject) THEN "PUT" ELSE "POST"
        /\ lastSubmit'[1].kind = "task" =>
               /\ taskWrite' # Null
               /\ taskWrite'[1].request.method =
                      IF ExistingUnderEdit(editingTask) THEN "PUT" ELSE "POST"]_vars

\* The submitted values pass the checks of the submit handler: a project
\* name, or a task title and (for a new task) a project, is left after
\* trimming.
PassesValidation(submit, editing) ==
    IF submit.kind = "project" THEN submit.payload.name # ""
    ELSE /\ submit.payload.title # ""
         /\ ExistingUnderEdit(editing) \/ ~Falsy(submit.payload.project_id)

\* C20 (amended): a submit that passes the handler's validation issues
\* exactly one write request: for the project form PUT /api/projects/{id}
\* with the id of the project under edit when an existing project is open
\* for editing and POST /api/projects otherwise, for the task form
\* PUT /api/tasks/{id} for an existing task and
\* POST /api/projects/{project_id}/tasks with the submitted project id for a
\* new one; a submit that fails validation issues no request.
C20_ValidSubmitIssuesOneWrite ==
    [][submitCount' # submitCount =>
        IF lastSubmit'[1].kind = "project"
        THEN /\ taskWrite' = taskWrite
             /\ IF PassesValidation(lastSubmit'[1], editingProject)
                THEN /\ writeCount' = writeCount + 1
                     /\ projectWrite = Null
                     /\ projectWrite' # Null
                     /\ projectWrite'[1].request.method =
                            IF ExistingUnderEdit(editingProject) THEN "PUT" ELSE "POST"
                     /\ projectWrite'[1].request.resource =
                            IF ExistingUnderEdit(editingProject)
                            THEN "/api/projects/{id}" ELSE "/api/projects"
                     /\ ExistingUnderEdit(editingProject) =>
                            projectWrite'[1].request.id = editingProject[1].id
                ELSE /\ writeCount' = writeCount
                     /\ projectWrite' = projectWrite
        ELSE /\ projectWrite' = projectWrite
             /\ IF PassesValidation(lastSubmit'[1], editingTask)
                THEN /\ writeCount' = writeCount + 1
                     /\ taskWrite = Null
                     /\ taskWrite' # Null
                     /\ taskWrite'[1].request.method =
                            IF ExistingUnderEdit(editingTask) THEN "PUT" ELSE "POST"
                     /\ taskWrite'[1].request.resource =
                            IF ExistingUnderEdit(editingTask)
                            THEN "/api/tasks/{id}" ELSE "/api/projects/{id}/tasks"
                     /\ taskWrite'[1].request.id =
                            IF ExistingUnderEdit(editingTask) THEN editingTask[1].id
                            ELSE lastSubmit'[1].payload.project_id[1]
                ELSE /\ writeCount' = writeCount
                     /\ taskWrite' = taskWrite]_vars

\* Project 2 was opened for editing and its form submitted with a name: the
\* one request of that submit, PUT /api/projects/2, is in flight.
C20_Witness ==
    /\ submitCount = 1
    /\ writeCount = 1
    /\ editingProject # Null
    /\ projectWrite # Null
    /\ projectWrite[1].request.method = "PUT"
    /\ projectWrite[1].request.id = 2
    /\ projectWrite[1].payload.name = "Site"

\* The ids of the listed projects.
ProjectIds == {projects[k].id : k \in 1..Len(projects)}

\* What the stored text says about project `id`: collapsed when it is a JSON
\* object whose last member for the id's key is the literal false.
StoredCollapsed(text, id) ==
    /\ text.kind = "object"
    /\ \E i \in 1..Len(text.members) :
        /\ text.members[i] = <<String(id), "false">>
        /\ \A j \in (i + 1)..Len(text.members) : text.members[j][1] # String(id)

\* C21: while the chart is mounted, after any toggles, the stored item is
\* JSON of an object that parses to the current expandedProjects; unmounting
\* leaves the stored item alone; and a mount shows each project collapsed
\* exactly when the stored item is an object saying false for it, so as it
\* was shown before the reload, and all projects expanded when the item is
\* missing, empty, no JSON or no object.
C21_ExpandedStatePersisted ==
    /\ [](rendered =>
            /\ JSONparse(storage).type = "object"
            /\ JSONparse(storage).object = expandedProjects)
    /\ [][(rendered /\ ~rendered') => storage' = storage]_vars
    /\ [][(~rendered /\ rendered') =>
            \A id \in ProjectIds :
                Expanded(expandedProjects', id) = ~StoredCollapsed(storage, id)]_vars

\* The chart has been mounted a second time and shows project 1 collapsed
\* and project 2 expanded, as stored.
C21_Witness ==
    /\ rendered
    /\ mounts = 2
    /\ DOMAIN expandedProjects = {"1", "2"}
    /\ ~Expanded(expandedProjects, 1)
    /\ Expanded(expandedProjects, 2)
    /\ expandedProjects["2"] = BooleanValue(TRUE)

\* C22: every toggleProject(id) inverts whether project id is shown
\* expanded, whatever expandedProjects held for it (also nothing), and
\* changes no other project's shown state.
C22_ToggleInverts ==
    [][(rendered /\ rendered' /\ expandedProjects' # expandedProjects) =>
        \E id \in ProjectIds :
            /\ Expanded(expandedProjects', id) = ~Expanded(expandedProjects, id)
            /\ \A other \in ProjectIds \ {id} :
                   Expanded(expandedProjects', other) = Expanded(expandedProjects, other)]_vars

\* C23: once no loadData call is in flight, projects, tasksByProject and
\* error are those set by the call that was started last.
C23_LastStartedLoadWins ==
    (started > 0 /\ inflight = {}) => dataSerial = started

\* C24: in every state in which a loadData call is in flight, loading is
\* true.
C24_LoadingWhileInFlight ==
    inflight # {} => loading

\* C25: tasksByProject has an entry for exactly the ids of the listed
\* projects, and once a load has completed either error is empty (the load
\* succeeded) or error is set and projects and tasksByProject are both empty
\* (it failed).
C25_LoadAllOrNothing ==
    /\ DOMAIN tasksByProject = ProjectIds
    /\ dataSerial > 0 =>
           \/ error = ""
           \/ error # "" /\ projects = <<>> /\ tasksByProject = <<>>

\* C26: with every request answered, a busy flag that is set is cleared
\* again: loading after a started load, projectSaving after a project save,
\* taskSaving after a task save, whether the requests succeed or fail.
C26_BusyFlagsCleared ==
    /\ loading ~> ~loading
    /\ projectSaving ~> ~projectSaving
    /\ taskSaving ~> ~taskSaving

\* A project save went through its write request and the reload it awaited,
\* and is no longer busy.
C26_Witness ==
    /\ lastSubmit # Null
    /\ lastSubmit[1].kind = "project"
    /\ writeCount = 1
    /\ projectWrite = Null
    /\ ~projectSaving
    /\ ~loading
    /\ inflight = {}
    /\ started = 2
    /\ dataSerial = 2

\* Names that are empty after trimming.
BlankNames == {"", "  "}

\* C27: a submit of the project form whose name is empty after trimming
\* sends no request and starts no reload; it sets the form's error message
\* and leaves projects, tasksByProject, the form as entered, the record
\* under edit, the modal, the saving flag and the rest of the page as they
\* were.
C27_BlankNameIssuesNoRequest ==
    [][(/\ submitCount' # submitCount
        /\ lastSubmit'[1].kind = "project"
        /\ projectForm'.name \in BlankNames) =>
            /\ writeCount' = writeCount
            /\ projectWrite' = Null
            /\ started' = started
            /\ projectModalError' = "Nome do projeto e obrigatorio."
            /\ projects' = projects
            /\ tasksByProject' = tasksByProject
            /\ ProjectModalSubmit(projectForm') = lastSubmit'[1].payload
            /\ isProjectModalOpen'
            /\ editingProject' = editingProject
            /\ projectSaving' = projectSaving
            /\ UNCHANGED <<layoutVars, pageVars, taskModalVars, taskSaveVars, toasts, toastSerial,
                           projectReload>>]_vars

\* The project form was submitted with a name of blanks: its message is
\* shown, nothing was sent.
C27_Witness ==
    /\ submitCount = 1
    /\ lastSubmit # Null
    /\ lastSubmit[1].kind = "project"
    /\ projectForm.name = "  "
    /\ isProjectModalOpen
    /\ projectModalError = "Nome do projeto e obrigatorio."
    /\ writeCount = 0
    /\ ~projectSaving

\* A write request of a project save, or of a task save, has just ended.
ProjectWriteEnded == projectWrite # Null /\ projectWrite' = Null

TaskWriteEnded == taskWrite # Null /\ taskWrite' = Null

\* C28: when the write request of a project or task save fails, no reload
\* starts, the modal, its form and the record under edit stay as they are,
\* and the modal's error message is set; a handler closes its modal and
\* starts its reload only in the step in which its write request succeeded.
C28_FailedWriteKeepsModal ==
    /\ [][(ProjectWriteEnded /\ lastResponse' = "failed") =>
            /\ started' = started
            /\ inflight' = inflight
            /\ projectReload' = projectReload
            /\ isProjectModalOpen' = isProjectModalOpen
            /\ projectForm' = projectForm
            /\ editingProject' = editingProject
            /\ projectModalError' # ""]_vars
    /\ [][(TaskWriteEnded /\ lastResponse' = "failed") =>
            /\ started' = started
            /\ inflight' = inflight
            /\ taskReload' = taskReload
            /\ isTaskModalOpen' = isTaskModalOpen
            /\ taskForm' = taskForm
            /\ editingTask' = editingTask
            /\ taskModalError' # ""]_vars
    /\ [][(projectReload' # projectReload /\ projectReload' # 0) =>
            ProjectWriteEnded /\ lastResponse' = "ok" /\ ~isProjectModalOpen']_vars
    /\ [][(taskReload' # taskReload /\ taskReload' # 0) =>
            TaskWriteEnded /\ lastResponse' = "ok" /\ ~isTaskModalOpen']_vars

\* The write request of a project save has failed: the modal is open with
\* the name as entered, the message is shown, and no reload was started.
C28_Witness ==
    /\ lastResponse = "failed"
    /\ lastSubmit # Null
    /\ lastSubmit[1].kind = "project"
    /\ isProjectModalOpen
    /\ projectForm.name = " Site "
    /\ projectModalError = "Falha na requisicao"
    /\ projectWrite = Null
    /\ ~projectSaving
    /\ started = 1

\* C29: every bar the chart shows lies inside the grid with the margin of
\* two columns on each side: its left is at least 2 * DAY_WIDTH and its
\* left plus its width is at most timelineWidth - 2 * DAY_WIDTH.
C29_BarsInsideGrid ==
    rendered =>
        \A slot \in TaskSlots :
            BarAt(slot) # Null =>
                /\ BarAt(slot)[1].left >= 2 * DAY_WIDTH
                /\ BarAt(slot)[1].left + BarAt(slot)[1].width
                       <= view.timeline.timelineWidth - 2 * DAY_WIDTH

\* The toast that call number `id` of showToast added is in the list.
ToastShown(id) == \E toast \in toasts : toast.id = id

====
